---- MODULE Spec2Model ----
(***************************************************************************)
(* Model of the web3-insight-chat backend: the chat controller             *)
(* (handleChat, handleChatStream), the Web3 feed service with its cache    *)
(* (getCached, setCache, the three feed fetchers, getWeb3Trends,           *)
(* searchWeb3Context) and the vector store's searchSimilar fusion loop.    *)
(*                                                                         *)
(* Text is modelled as a sequence of tokens: concatenation is \o, the      *)
(* empty string is << >>, and a token is either a white-space token or a   *)
(* piece of visible text.                                                  *)
(***************************************************************************)
EXTENDS Integers, Sequences, FiniteSets, TLC

VARIABLES
    (* ---- chat controller: one request --------------------------------- *)
    pc,              \* position of the handler between its awaits
    message,         \* req.body.message
    vectorContext,   \* let vectorContext
    vectorSources,   \* let vectorSources
    web3Context,     \* const web3Context
    combinedContext, \* const combinedContext
    fullContent,     \* let fullContent (streaming loop)
    written,         \* the sendEvent / res.write calls made, in order
    ended,           \* number of res.end() calls
    response,        \* the res.status(..).json(..) / res.json(..) body, or NoResponse
    calls,           \* the collaborators the handler has called, in order
    retrieval,       \* outcome of searchSimilar seen by the handler
    yielded,         \* chunks streamLLMResponse has produced so far
    llm,             \* outcome of the completion: "pending", "ok" or the thrown value
    disconnect,      \* "none", or the snapshot taken when the client went away
    (* ---- Web3 service -------------------------------------------------- *)
    cache,           \* let cache = {}
    now,             \* Date.now()
    inflight,        \* upstream fetches issued and not yet answered
    req,             \* the searchWeb3Context / getWeb3Trends calls in progress
    (* ---- vector store: one searchSimilar call --------------------------- *)
    spc,             \* position of searchSimilar
    query,           \* parameter query
    limit,           \* parameter limit
    maxVariants,     \* const maxVariants
    expansionEnabled,\* const expansionEnabled
    metadataFilter,  \* parameter metadataFilter, as the list of its entries
    filterConditions,\* const filterConditions
    filterParams,    \* const filterParams
    queries,         \* const queries: the variants, in search order
    vi,              \* index of the variant the loop is at
    simOf,           \* per searched variant: its similarity to each stored document
    rowsOf,          \* per searched variant: result.rows
    resultsMap,      \* const resultsMap: its values, in insertion order
    searchResult,    \* combinedResults, once returned
    (* ---- vector store: the table and one addDocuments / deleteDocument call *)
    table,           \* ids of the rows of document_embeddings
    nextId,          \* next value of the SERIAL id
    storeOp,         \* the call in progress
    (* ---- client: the read loop of handleSend on the response of /api/chat/stream *)
    sent,            \* the events the server wrote, in order
    unread,          \* the bytes of the response body not yet returned by reader.read()
    buffer,          \* text carried over to the next read
    currentEvent,    \* name of the event being received; << >> stands for null and ''
    dispatched,      \* the (event, data) pairs that reached a branch of the handler
    reading          \* "idle", "open" (in the while loop) or "closed"

chatVars == <<pc, message, vectorContext, vectorSources, web3Context, combinedContext, fullContent,
              written, ended, response, calls, retrieval, yielded, llm, disconnect>>
web3Vars == <<cache, now, inflight, req>>
searchVars == <<spc, query, limit, maxVariants, expansionEnabled, metadataFilter, filterConditions,
                filterParams, queries, vi, simOf, rowsOf, resultsMap, searchResult>>
storeVars == <<table, nextId, storeOp>>
clientVars == <<sent, unread, buffer, currentEvent, dispatched, reading>>
vars == <<chatVars, web3Vars, searchVars, storeVars, clientVars>>

(***************************************************************************)
(* Bounds of the model.                                                    *)
(***************************************************************************)
MaxChunks == 2      \* chunks one completion stream yields
MaxDocs == 2        \* documents one searchSimilar call returns to the controller
MaxTime == 2        \* last instant of the clock
CacheTTL == 1       \* CACHE_TTL, in clock steps
MaxVariants == 2    \* QUERY_EXPANSION_MAX_VARIANTS
MaxLimit == 2       \* largest `limit` a search is called with
MaxAsked == 7       \* largest QUERY_EXPANSION_MAX_VARIANTS of the expansion runs
MaxBatch == 2       \* most documents one addDocuments call is given
MaxId == 4          \* last id the SERIAL column hands out
MaxSent == 4        \* most events of one response body

(***************************************************************************)
(* Text helpers.                                                           *)
(***************************************************************************)
Undefined == "undefined"
NoResponse == [status |-> 0, content |-> << >>, sources |-> << >>, error |-> << >>]

RECURSIVE SeqRange(_)
SeqRange(s) == IF s = << >> THEN {} ELSE {Head(s)} \cup SeqRange(Tail(s))

IsSpace(tok) == tok \in {" ", "\n", "\n\n"}

RECURSIVE TrimLeft(_)
TrimLeft(s) == IF s # << >> /\ IsSpace(Head(s)) THEN TrimLeft(Tail(s)) ELSE s

RECURSIVE TrimRight(_)
TrimRight(s) ==
    IF s # << >> /\ IsSpace(s[Len(s)]) THEN TrimRight(SubSeq(s, 1, Len(s) - 1)) ELSE s

\* String.prototype.trim
Trim(s) == TrimRight(TrimLeft(s))

\* Array.prototype.join over texts
RECURSIVE Join(_, _)
Join(parts, sep) ==
    IF parts = << >> THEN << >>
    ELSE IF Len(parts) = 1 THEN parts[1]
    ELSE parts[1] \o sep \o Join(Tail(parts), sep)

\* String.prototype.includes('API key') on a message text
IncludesApiKey(text) == "API key" \in SeqRange(text)

\* a || b for values that are a string or undefined
OrElse(a, b) == IF a = Undefined \/ a = "" THEN b ELSE a

\* All sequences over S of length at most n
RECURSIVE SeqsUpTo(_, _)
SeqsUpTo(S, n) ==
    IF n = 0 THEN {<< >>}
    ELSE LET shorter == SeqsUpTo(S, n - 1)
         IN shorter \cup {Append(s, x) : s \in {t \in shorter : Len(t) = n - 1}, x \in S}

NoDup(s) == \A i, j \in 1..Len(s) : i # j => s[i] # s[j]

(***************************************************************************)
(* Web3 service: values.                                                   *)
(***************************************************************************)
Feeds == {"trending_coins", "defi_protocols", "market_data"}
Requests == {1, 2}

\* A JavaScript value held by the service: an array, undefined or null.
List(items) == [tag |-> "list", items |-> items]
UndefinedValue == [tag |-> "undefined", items |-> << >>]
NullValue == [tag |-> "null", items |-> << >>]
Truthy(v) == v.tag = "list"

\* Raw items of an upstream payload.
RawItem(name, symbol, price, chain) ==
    [name |-> name, symbol |-> symbol, price |-> price, chain |-> chain]
Btc == RawItem("Bitcoin", "btc", "60000", "Bitcoin")
Eth == RawItem("Ethereum", "eth", "3000", "Ethereum")
NoChain == RawItem("Orphan", "orp", "1", Undefined)
RawLists == {<<NoChain>>, <<Btc, Eth>>}

\* What one upstream call ends with: the fetch rejects, the status is not ok, the
\* body is no JSON, or a JSON body that is a list of items ("list"), that lacks
\* the expected container (no `coins`, or a null document: "noshape"), or whose
\* container or items cannot be read ("baditem").
Responses ==
    { [kind |-> k, shape |-> "list", items |-> << >>] : k \in {"neterr", "httperr", "badjson"} }
    \cup { [kind |-> "json", shape |-> sh, items |-> << >>] : sh \in {"noshape", "baditem"} }
    \cup { [kind |-> "json", shape |-> "list", items |-> l] : l \in RawLists }

NoEntry == [present |-> FALSE, data |-> NullValue, timestamp |-> 0]

CoinGecko == [name |-> "CoinGecko", url |-> "https://www.coingecko.com"]
DeFiLlama == [name |-> "DeFiLlama", url |-> "https://defillama.com"]
Placeholder == [name |-> "General Web3 Knowledge", url |-> "#"]

(***************************************************************************)
(* Web3 service: the cache.                                                *)
(***************************************************************************)
\* getCached(key) at instant t
GetCached(c, key, t) ==
    IF c[key].present /\ t - c[key].timestamp < CacheTTL THEN c[key].data ELSE NullValue

\* Variant of SetCache: an entry that exists is kept
SetCacheKeepsFirst(c, key, data, t) ==
    IF c[key].present THEN c
    ELSE [c EXCEPT ![key] = [present |-> TRUE, data |-> data, timestamp |-> t]]

\* setCache(key, data) at instant t
SetCache(c, key, data, t) ==
    [c EXCEPT ![key] = [present |-> TRUE, data |-> data, timestamp |-> t]]

(***************************************************************************)
(* Web3 service: mapping an upstream payload.                              *)
(* Each yields [threw, value].                                             *)
(***************************************************************************)
Threw == [threw |-> TRUE, value |-> NullValue]
Gave(v) == [threw |-> FALSE, value |-> v]

\* Array.prototype.slice(0, n)
Slice0(s, n) == SubSeq(s, 1, IF Len(s) < n THEN Len(s) ELSE n)

RECURSIVE WithChains(_)
WithChains(s) ==
    IF s = << >> THEN << >>
    ELSE IF Head(s).chain # Undefined THEN <<Head(s)>> \o WithChains(Tail(s))
    ELSE WithChains(Tail(s))

\* data.coins?.slice(0, 5).map(coin => ({name, symbol, ...}))
MapTrending(body) ==
    IF body.shape = "noshape" THEN Gave(UndefinedValue)
    ELSE IF body.shape = "baditem" THEN Threw
    ELSE Gave(List([i \in 1..Len(Slice0(body.items, 5)) |->
                      [name |-> body.items[i].name, symbol |-> body.items[i].symbol,
                       source |-> "CoinGecko"]]))

\* data?.filter(p => p.chains && p.chains.length > 0).slice(0, 5).map(..)
MapDefi(body) ==
    IF body.shape = "noshape" THEN Gave(UndefinedValue)
    ELSE IF body.shape = "baditem" THEN Threw
    ELSE LET kept == Slice0(WithChains(body.items), 5)
         IN Gave(List([i \in 1..Len(kept) |->
                         [name |-> kept[i].name, chain |-> kept[i].chain,
                          source |-> "DeFiLlama"]]))

\* data.map(coin => ({name, symbol, price, ...}))
MapMarket(body) ==
    IF body.shape # "list" THEN Threw
    ELSE Gave(List([i \in 1..Len(body.items) |->
                      [name |-> body.items[i].name, symbol |-> body.items[i].symbol,
                       price |-> body.items[i].price, source |-> "CoinGecko"]]))

MapFeed(feed, body) ==
    CASE feed = "trending_coins" -> MapTrending(body)
      [] feed = "defi_protocols" -> MapDefi(body)
      [] feed = "market_data" -> MapMarket(body)

\* Variant of FeedResult: the catch stores the empty list it returns
FeedResultStoresFallback(feed, resp) ==
    IF resp.kind # "json" THEN [store |-> TRUE, value |-> List(<< >>)]
    ELSE LET m == MapFeed(feed, resp)
         IN IF m.threw THEN [store |-> TRUE, value |-> List(<< >>)]
            ELSE [store |-> TRUE, value |-> m.value]

\* The part of a feed function after its fetch resolved: [store, value].
\* A rejected fetch, a status that is not ok, a body that is no JSON and a throwing
\* map all land in the catch, which returns [] and stores nothing.
FeedResult(feed, resp) ==
    IF resp.kind # "json" THEN [store |-> FALSE, value |-> List(<< >>)]
    ELSE LET m == MapFeed(feed, resp)
         IN IF m.threw THEN [store |-> FALSE, value |-> List(<< >>)]
            ELSE [store |-> TRUE, value |-> m.value]

(***************************************************************************)
(* Web3 service: searchWeb3Context and getWeb3Trends.                      *)
(***************************************************************************)
\* The queries: the words of the lowercased query.
Queries ==
    { {"hello"}, {"bitcoin", "defi"}, {"trending"} }

CoinKeywords == {"bitcoin", "btc", "ethereum", "eth", "bnb", "solana", "sol", "cardano", "ada"}

\* hasCoinKeyword || includes('price') || includes('coin')
AsksMarket(q) == (q \cap CoinKeywords # {}) \/ "price" \in q \/ "coin" \in q
\* includes('defi') || includes('lending') || includes('yield')
AsksDefi(q) == "defi" \in q \/ "lending" \in q \/ "yield" \in q
\* includes('trending') || includes('trend')
AsksTrend(q) == "trending" \in q \/ "trend" \in q

MarketText(items) ==
    <<"Recent market data: ">>
    \o Join([i \in 1..Len(items) |->
               <<items[i].name, " (", items[i].symbol, ") at $", items[i].price>>], <<", ">>)
    \o <<".\n">>
DefiText(items) ==
    <<"Top DeFi protocols: ">>
    \o Join([i \in 1..Len(items) |-> <<items[i].name, " on ", items[i].chain>>], <<", ">>)
    \o <<".\n">>
TrendText(items) ==
    <<"Currently trending: ">>
    \o Join([i \in 1..Len(items) |-> <<items[i].name, " (", items[i].symbol, ")">>], <<", ">>)
    \o <<".\n">>
\* Variant of GeneralText: no opening sentence, only the list of coins when there is one
GeneralTextCoinsOnly(items) ==
    IF Len(items) > 0 THEN <<"Current top cryptocurrencies include ", items[1].name, ".">>
    ELSE << >>

GeneralText(items) ==
    <<"Web3 ecosystem is evolving rapidly with DeFi, NFTs, and Layer 2 solutions. ">>
    \o (IF Len(items) > 0
        THEN <<"Current top cryptocurrencies include ">>
             \o Join([i \in 1..Len(Slice0(items, 3)) |-> <<items[i].name>>], <<", ">>)
             \o <<".">>
        ELSE << >>)
FallbackText ==
    <<"Web3 is a rapidly evolving space including DeFi, NFTs, blockchain technology, and cryptocurrencies. ",
      "Due to network constraints, I cannot fetch current market data, but I can still discuss Web3 concepts and trends.">>

\* The value the catch of searchWeb3Context returns
Fallback == [relevantData |-> FallbackText, sources |-> <<Placeholder>>]

Phases == {"coin", "defi", "trend", "general", "trends"}
FeedsOf(phase) ==
    CASE phase = "coin" -> {"market_data"}
      [] phase = "defi" -> {"defi_protocols"}
      [] phase = "trend" -> {"trending_coins"}
      [] OTHER -> Feeds
NextPhase(phase) ==
    CASE phase = "coin" -> "defi"
      [] phase = "defi" -> "trend"
      [] phase = "trend" -> "general"
      [] OTHER -> "done"

NoGot == [f \in Feeds |-> NullValue]
IdleRequest ==
    [state |-> "idle", kind |-> "none", q |-> {}, phase |-> "done", relevantData |-> << >>,
     sources |-> << >>, pending |-> {}, got |-> NoGot,
     ret |-> [relevantData |-> << >>, sources |-> << >>],
     trends |-> NoGot,
     \* bookkeeping: the feeds this call consulted, and those among them that were
     \* served by the cache or by an upstream answer with an ok status
     asked |-> {}, answered |-> {}]

\* Whether the block of searchWeb3Context at `phase` consults its feed(s)
Applies(rq) ==
    CASE rq.phase = "coin" -> AsksMarket(rq.q)
      [] rq.phase = "defi" -> AsksDefi(rq.q)
      [] rq.phase = "trend" -> AsksTrend(rq.q)
      [] rq.phase = "general" -> rq.relevantData = << >>
      [] rq.phase = "trends" -> TRUE
      [] OTHER -> FALSE

\* Variant of OnSearchError: the exception leaves searchWeb3Context
OnSearchErrorRethrows(rq) == [rq EXCEPT !.state = "raised", !.got = NoGot]

\* The catch of searchWeb3Context: log and return the fallback
OnSearchError(rq) == [rq EXCEPT !.state = "returned", !.got = NoGot, !.ret = Fallback]

\* The return value of getWeb3Trends, from the three feed results
TrendsOf(got) ==
    [trending_coins |-> got["trending_coins"], top_defi_protocols |-> got["defi_protocols"],
     market_data |-> got["market_data"]]

\* searchWeb3Context resumed with the value(s) its await delivered: the rest of the
\* block at rq.phase. Reading .length of undefined throws into the catch.
AfterFeeds(rq) ==
    LET f == CHOOSE x \in FeedsOf(rq.phase) : TRUE
        v == rq.got[f]
        text == CASE rq.phase = "coin" -> MarketText(v.items)
                  [] rq.phase = "defi" -> DefiText(v.items)
                  [] OTHER -> TrendText(v.items)
        src == IF rq.phase = "defi" THEN DeFiLlama ELSE CoinGecko
    IN  IF rq.phase = "general"
        THEN LET trends == TrendsOf(rq.got)
             IN IF trends.market_data.tag # "list" THEN OnSearchError(rq)
                ELSE [rq EXCEPT !.state = "run", !.phase = "done", !.got = NoGot,
                                !.relevantData = GeneralText(trends.market_data.items),
                                !.sources = Append(rq.sources, CoinGecko)]
        ELSE IF v.tag # "list" THEN OnSearchError(rq)
        ELSE IF Len(v.items) > 0
        THEN [rq EXCEPT !.state = "run", !.phase = NextPhase(rq.phase), !.got = NoGot,
                        !.relevantData = rq.relevantData \o text,
                        !.sources = Append(rq.sources, src)]
        ELSE [rq EXCEPT !.state = "run", !.phase = NextPhase(rq.phase), !.got = NoGot]

(***************************************************************************)
(* Web3 service: actions.                                                  *)
(***************************************************************************)
Web3Init ==
    /\ cache = [f \in Feeds |-> NoEntry]
    /\ now = 0
    /\ inflight = {}
    /\ req = [r \in Requests |-> IdleRequest]

\* searchWeb3Context(query) is called
SearchWeb3Context(r, q) ==
    /\ req[r].state = "idle"
    /\ req' = [req EXCEPT ![r] = [IdleRequest EXCEPT !.state = "run", !.kind = "search",
                                                     !.q = q, !.phase = "coin"]]
    /\ UNCHANGED <<cache, now, inflight>>

\* getWeb3Trends() is called on its own
GetWeb3Trends(r) ==
    /\ req[r].state = "idle"
    /\ req' = [req EXCEPT ![r] = [IdleRequest EXCEPT !.state = "run", !.kind = "trends",
                                                     !.phase = "trends"]]
    /\ UNCHANGED <<cache, now, inflight>>

\* A block whose condition is false is passed over
SkipBlock(r) ==
    /\ req[r].state = "run"
    /\ req[r].phase \in Phases
    /\ ~Applies(req[r])
    /\ req' = [req EXCEPT ![r].phase = NextPhase(req[r].phase)]
    /\ UNCHANGED <<cache, now, inflight>>

\* The feed function(s) of a block are called: each reads the cache and, on a miss,
\* issues its upstream fetch. Promise.all starts all three in the same turn.
CallFeeds(r) ==
    /\ req[r].state = "run"
    /\ req[r].phase \in Phases
    /\ Applies(req[r])
    /\ LET fs == FeedsOf(req[r].phase)
           hit(f) == Truthy(GetCached(cache, f, now))
           misses == {f \in fs : ~hit(f)}
       IN /\ req' = [req EXCEPT ![r].state = "wait",
                                ![r].pending = misses,
                                ![r].asked = req[r].asked \cup fs,
                                ![r].answered = req[r].answered \cup (fs \ misses),
                                ![r].got = [f \in Feeds |->
                                              IF f \in fs /\ hit(f)
                                              THEN GetCached(cache, f, now) ELSE NullValue]]
          /\ inflight' = inflight \cup {<<r, f>> : f \in misses}
    /\ UNCHANGED <<cache, now>>

\* An upstream fetch is answered and the feed function runs to its return
FetchReturns(r, f, resp) ==
    /\ <<r, f>> \in inflight
    /\ LET res == FeedResult(f, resp)
       IN /\ cache' = IF res.store THEN SetCache(cache, f, res.value, now) ELSE cache
          /\ req' = [req EXCEPT ![r].pending = req[r].pending \ {f},
                                ![r].answered = IF resp.kind \in {"neterr", "httperr"}
                                                THEN req[r].answered
                                                ELSE req[r].answered \cup {f},
                                ![r].got[f] = res.value]
    /\ inflight' = inflight \ {<<r, f>>}
    /\ UNCHANGED now

\* Every awaited feed function has returned: the caller resumes
Resume(r) ==
    /\ req[r].state = "wait"
    /\ req[r].pending = {}
    /\ req' = [req EXCEPT ![r] =
                 IF req[r].kind = "trends"
                 THEN [req[r] EXCEPT !.state = "returned", !.trends = req[r].got]
                 ELSE AfterFeeds(req[r])]
    /\ UNCHANGED <<cache, now, inflight>>

\* return { relevantData, sources }
SearchReturns(r) ==
    /\ req[r].state = "run"
    /\ req[r].phase = "done"
    /\ req' = [req EXCEPT ![r].state = "returned",
                          ![r].ret = [relevantData |-> req[r].relevantData,
                                      sources |-> req[r].sources]]
    /\ UNCHANGED <<cache, now, inflight>>

\* The caller has taken the returned value
Settle(r) ==
    /\ req[r].state = "returned"
    /\ req' = [req EXCEPT ![r] = IdleRequest]
    /\ UNCHANGED <<cache, now, inflight>>

\* Time passes
Tick ==
    /\ now < MaxTime
    /\ now' = now + 1
    /\ UNCHANGED <<cache, inflight, req>>

(***************************************************************************)
(* Chat controller: inputs.                                                *)
(***************************************************************************)
Messages == {<< >>, <<"what", " ", "is", " ", "defi">>}

\* Rows searchSimilar hands to the controller: {id, content, metadata}.
Doc(id, content, title, source, url) ==
    [id |-> id, content |-> content,
     metadata |-> [title |-> title, source |-> source, url |-> url]]

DocPool ==
    { Doc(1, "c1", "T1", "S1", "https://u1"),
      Doc(2, "c2", Undefined, "S2", Undefined),
      Doc(3, "c3", Undefined, Undefined, Undefined) }

SimilarDocsResults == {s \in SeqsUpTo(DocPool, MaxDocs) : NoDup(s)}

\* What searchSimilar throws: the embedding provider failed, the store failed,
\* or the query was empty after trimming. Each is an Error with a message.
RetrievalErrors ==
    { [hasMessage |-> TRUE, message |-> <<"OpenAI API error: ", "x">>],
      [hasMessage |-> TRUE, message |-> <<"connect ECONNREFUSED">>],
      [hasMessage |-> TRUE, message |-> <<"Query cannot be empty">>] }

\* What the completion throws: an Error naming the missing key, another Error, or
\* a value that carries no string message.
ApiKeyError ==
    [hasMessage |-> TRUE, message |-> <<"API key", " not found for provider: ", "openai">>]
ProviderError == [hasMessage |-> TRUE, message |-> <<"OpenAI API error: ", "Unknown error">>]
NoMessageError == [hasMessage |-> FALSE, message |-> << >>]
\* callOpenAI forwards the provider's message of a 401 reply
InvalidKeyError ==
    [hasMessage |-> TRUE, message |-> <<"OpenAI API error: ", "Incorrect ", "API key", " provided">>]
CompletionErrors == {ApiKeyError, InvalidKeyError, ProviderError, NoMessageError}

Chunks == {<< >>, <<"a">>, <<"b", "c">>}

\* TypeError raised by error.message.includes(..) when message is undefined
TypeErrorMessage == <<"Cannot read properties of undefined (reading 'includes')">>

(***************************************************************************)
(* Chat controller: pure parts of the handlers.                            *)
(***************************************************************************)
\* similarDocs.map(doc => `[From stored knowledge]: ${doc.content}`).join('\n\n')
VectorContextOf(similarDocs) ==
    Join([i \in 1..Len(similarDocs) |->
            <<"[From stored knowledge]: ", similarDocs[i].content>>], <<"\n\n">>)

\* similarDocs.map(doc => ({name: title || source || 'Stored Knowledge', url: url || '#'}))
VectorSourcesOf(similarDocs) ==
    [i \in 1..Len(similarDocs) |->
        [name |-> OrElse(similarDocs[i].metadata.title,
                         OrElse(similarDocs[i].metadata.source, "Stored Knowledge")),
         url |-> OrElse(similarDocs[i].metadata.url, "#")]]

\* Variant of CombineContext: the two blocks are joined without the filter
CombineContextKeepsEmpty(vctx, web3Data) == Join(<<vctx, web3Data>>, <<"\n\n">>)

\* [vectorContext, web3Data].filter(c => c.trim().length > 0).join('\n\n')
CombineContext(vctx, web3Data) ==
    Join((IF Len(Trim(vctx)) > 0 THEN <<vctx>> ELSE << >>)
         \o (IF Len(Trim(web3Data)) > 0 THEN <<web3Data>> ELSE << >>), <<"\n\n">>)

\* Variant of CombineSources: the external attributions are put first
CombineSourcesExternalFirst(vsrc, ctx) == ctx.sources \o vsrc

\* const sources = [...vectorSources]; sources.push(...web3Context.sources)
CombineSources(vsrc, ctx) == vsrc \o ctx.sources

\* sendEvent(event, data): the two res.write calls of one event, made back to back.
\* afterEnd records whether res.end() had already been called.
SendEvent(w, event, data, nEnded) ==
    Append(w, [event |-> event, data |-> data, afterEnd |-> nEnded > 0])

\* the message of the error event of the inner catch
StreamErrorMessage(error) ==
    IF IncludesApiKey(error.message)
    THEN <<"To use this feature, please configure your LLM API key in the backend/.env file. Error: ">>
         \o error.message
    ELSE <<"An error occurred while generating the response.">>

\* What searchWeb3Context can hand to the controller
Web3Contexts ==
    LET market == MapMarket([shape |-> "list", items |-> <<Btc>>]).value.items
        defi == MapDefi([shape |-> "list", items |-> <<NoChain, Eth>>]).value.items
    IN { Fallback,
         [relevantData |-> GeneralText(<< >>), sources |-> <<CoinGecko>>],
         [relevantData |-> GeneralText(market), sources |-> <<CoinGecko>>],
         [relevantData |-> MarketText(market) \o DefiText(defi),
          sources |-> <<CoinGecko, DeFiLlama>>] }

\* What getLLMResponse resolves to
Completions == {<< >>, <<"answer">>}

NoRetrieval == [state |-> "none", docs |-> << >>, error |-> ProviderError]
NoCompletion == [state |-> "pending", error |-> ProviderError]
Connected == [gone |-> FALSE, written |-> 0, pulls |-> 0]
NoContext == [relevantData |-> << >>, sources |-> << >>]

\* The outer catch of handleChatStream, reached with the response ended nEnded times
OuterStreamCatch(w, nEnded, errorMessage) ==
    IF w = << >>
    THEN [written |-> w, ended |-> nEnded + 1,
          response |-> [NoResponse EXCEPT !.status = 500, !.error = errorMessage]]
    ELSE [written |-> SendEvent(w, "error", [error |-> errorMessage], nEnded),
          ended |-> nEnded + 1, response |-> NoResponse]

\* Variant of StreamFailure: the inner catch sends its error event and rethrows
StreamFailureRethrows(w, nEnded, error) ==
    OuterStreamCatch(
        SendEvent(w, "error", [error |-> <<"An error occurred while generating the response.">>],
                  nEnded),
        nEnded + 1, error.message)

\* catch / finally of the streaming try, then the outer catch when the inner catch
\* itself throws (error.message is undefined)
StreamFailure(w, nEnded, error) ==
    IF error.hasMessage
    THEN [written |-> SendEvent(w, "error", [error |-> StreamErrorMessage(error)], nEnded),
          ended |-> nEnded + 1, response |-> NoResponse]
    ELSE OuterStreamCatch(w, nEnded + 1, TypeErrorMessage)

(***************************************************************************)
(* Chat controller: actions. `ended` counts res.end() and res.json().      *)
(***************************************************************************)
ChatInit ==
    /\ pc = "idle"
    /\ message = << >>
    /\ vectorContext = << >>
    /\ vectorSources = << >>
    /\ web3Context = NoContext
    /\ combinedContext = << >>
    /\ fullContent = << >>
    /\ written = << >>
    /\ ended = 0
    /\ response = NoResponse
    /\ calls = << >>
    /\ retrieval = NoRetrieval
    /\ yielded = << >>
    /\ llm = NoCompletion
    /\ disconnect = Connected

\* handleChatStream up to `await searchSimilar(..)`
HandleChatStream(m) ==
    /\ pc = "idle"
    /\ message' = m
    /\ IF m = << >>
       THEN /\ response' = [NoResponse EXCEPT !.status = 400, !.error = <<"Message is required">>]
            /\ ended' = ended + 1
            /\ pc' = "done"
            /\ calls' = calls
       ELSE /\ pc' = "s_search"
            /\ calls' = Append(calls, "searchSimilar")
            /\ UNCHANGED <<response, ended>>
    /\ UNCHANGED <<web3Context, vectorContext, vectorSources, combinedContext, fullContent, written,
                   retrieval, yielded, llm, disconnect>>

\* searchSimilar resolved: the rest of the try of step 1, up to `await searchWeb3Context(..)`
StreamSearchResolves(similarDocs) ==
    /\ pc = "s_search"
    /\ retrieval' = [NoRetrieval EXCEPT !.state = "ok", !.docs = similarDocs]
    /\ vectorContext' = IF Len(similarDocs) > 0 THEN VectorContextOf(similarDocs) ELSE << >>
    /\ vectorSources' = IF Len(similarDocs) > 0 THEN VectorSourcesOf(similarDocs) ELSE << >>
    /\ calls' = Append(calls, "searchWeb3Context")
    /\ pc' = "s_web3"
    /\ UNCHANGED <<web3Context, message, combinedContext, fullContent, written, ended, response,
                   yielded, llm, disconnect>>

\* searchSimilar rejected: the catch of step 1, up to `await searchWeb3Context(..)`
StreamSearchRejects(error) ==
    /\ pc = "s_search"
    /\ retrieval' = [NoRetrieval EXCEPT !.state = "threw", !.error = error]
    /\ calls' = Append(calls, "searchWeb3Context")
    /\ pc' = "s_web3"
    /\ UNCHANGED <<web3Context, message, vectorContext, vectorSources, combinedContext, fullContent,
                   written, ended, response, yielded, llm, disconnect>>

\* searchWeb3Context resolved: steps 2 and 3, the sources event, the start event and
\* the first pull from streamLLMResponse
StreamWeb3Resolves(ctx) ==
    /\ pc = "s_web3"
    /\ web3Context' = ctx
    /\ combinedContext' = CombineContext(vectorContext, ctx.relevantData)
    /\ written' = SendEvent(
                    SendEvent(written, "sources",
                              [sources |-> CombineSources(vectorSources, ctx)], ended),
                    "start", [message |-> "Starting response..."], ended)
    /\ calls' = Append(calls, "streamLLMResponse")
    /\ pc' = "s_stream"
    /\ UNCHANGED <<message, vectorContext, vectorSources, fullContent, ended, response,
                   retrieval, yielded, llm, disconnect>>

\* Variant of StreamChunk: an empty chunk is accumulated but not sent
StreamChunkSkipsEmpty(chunk) ==
    /\ pc = "s_stream"
    /\ Len(yielded) < MaxChunks
    /\ yielded' = Append(yielded, chunk)
    /\ fullContent' = fullContent \o chunk
    /\ written' = IF chunk = << >> THEN written
                  ELSE SendEvent(written, "chunk", [content |-> chunk], ended)
    /\ UNCHANGED <<web3Context, pc, message, vectorContext, vectorSources, combinedContext,
                   ended, response, calls, retrieval, llm, disconnect>>

\* The body of the for-await loop for one chunk, and the next pull
StreamChunk(chunk) ==
    /\ pc = "s_stream"
    /\ Len(yielded) < MaxChunks
    /\ yielded' = Append(yielded, chunk)
    /\ fullContent' = fullContent \o chunk
    /\ written' = SendEvent(written, "chunk", [content |-> chunk], ended)
    /\ UNCHANGED <<web3Context, pc, message, vectorContext, vectorSources, combinedContext, ended,
                   response, calls, retrieval, llm, disconnect>>

\* Variant of StreamEnds: the response is ended without the done event
StreamEndsWithoutDone ==
    /\ pc = "s_stream"
    /\ llm' = [llm EXCEPT !.state = "ok"]
    /\ ended' = ended + 1
    /\ pc' = "done"
    /\ UNCHANGED <<web3Context, message, vectorContext, vectorSources, combinedContext,
                   fullContent, written, response, calls, retrieval, yielded, disconnect>>

\* The completion stream ended: the done event and the finally
StreamEnds ==
    /\ pc = "s_stream"
    /\ llm' = [llm EXCEPT !.state = "ok"]
    /\ written' = SendEvent(written, "done",
                            [message |-> "Response complete", fullContent |-> fullContent],
                            ended)
    /\ ended' = ended + 1
    /\ pc' = "done"
    /\ UNCHANGED <<web3Context, message, vectorContext, vectorSources, combinedContext, fullContent,
                   response, calls, retrieval, yielded, disconnect>>

\* The completion stream threw: catch, finally, and the outer catch if reached
StreamThrows(error) ==
    /\ pc = "s_stream"
    /\ llm' = [state |-> "threw", error |-> error]
    /\ LET out == StreamFailure(written, ended, error)
       IN /\ written' = out.written
          /\ ended' = out.ended
          /\ response' = out.response
    /\ pc' = "done"
    /\ UNCHANGED <<web3Context, message, vectorContext, vectorSources, combinedContext, fullContent,
                   calls, retrieval, yielded, disconnect>>

\* The client closes the connection while the streaming request is being served.
\* The handler registers no listener and tests no flag of the response.
ClientDisconnects ==
    /\ pc \in {"s_search", "s_web3", "s_stream"}
    /\ ~disconnect.gone
    /\ disconnect' = [gone |-> TRUE, written |-> Len(written), pulls |-> Len(yielded)]
    /\ UNCHANGED <<web3Context, pc, message, vectorContext, vectorSources, combinedContext, fullContent,
                   written, ended, response, calls, retrieval, yielded, llm>>

\* handleChat up to `await searchSimilar(..)`
HandleChat(m) ==
    /\ pc = "idle"
    /\ message' = m
    /\ IF m = << >>
       THEN /\ response' = [NoResponse EXCEPT !.status = 400, !.error = <<"Message is required">>]
            /\ ended' = ended + 1
            /\ pc' = "done"
            /\ calls' = calls
       ELSE /\ pc' = "c_search"
            /\ calls' = Append(calls, "searchSimilar")
            /\ UNCHANGED <<response, ended>>
    /\ UNCHANGED <<web3Context, vectorContext, vectorSources, combinedContext, fullContent, written,
                   retrieval, yielded, llm, disconnect>>

\* searchSimilar resolved in handleChat
ChatSearchResolves(similarDocs) ==
    /\ pc = "c_search"
    /\ retrieval' = [NoRetrieval EXCEPT !.state = "ok", !.docs = similarDocs]
    /\ vectorContext' = IF Len(similarDocs) > 0 THEN VectorContextOf(similarDocs) ELSE << >>
    /\ vectorSources' = IF Len(similarDocs) > 0 THEN VectorSourcesOf(similarDocs) ELSE << >>
    /\ calls' = Append(calls, "searchWeb3Context")
    /\ pc' = "c_web3"
    /\ UNCHANGED <<web3Context, message, combinedContext, fullContent, written, ended, response,
                   yielded, llm, disconnect>>

\* Variant of ChatSearchRejects: the failure reaches the outer catch
ChatSearchRejectsAborts(error) ==
    /\ pc = "c_search"
    /\ retrieval' = [NoRetrieval EXCEPT !.state = "threw", !.error = error]
    /\ response' = [NoResponse EXCEPT !.status = 500, !.error = error.message]
    /\ ended' = ended + 1
    /\ pc' = "done"
    /\ UNCHANGED <<web3Context, message, vectorContext, vectorSources, combinedContext,
                   fullContent, written, calls, yielded, llm, disconnect>>

\* searchSimilar rejected in handleChat
ChatSearchRejects(error) ==
    /\ pc = "c_search"
    /\ retrieval' = [NoRetrieval EXCEPT !.state = "threw", !.error = error]
    /\ calls' = Append(calls, "searchWeb3Context")
    /\ pc' = "c_web3"
    /\ UNCHANGED <<web3Context, message, vectorContext, vectorSources, combinedContext, fullContent,
                   written, ended, response, yielded, llm, disconnect>>

\* searchWeb3Context resolved in handleChat: steps 2 and 3, up to `await getLLMResponse(..)`
ChatWeb3Resolves(ctx) ==
    /\ pc = "c_web3"
    /\ web3Context' = ctx
    /\ combinedContext' = CombineContext(vectorContext, ctx.relevantData)
    /\ calls' = Append(calls, "getLLMResponse")
    /\ pc' = "c_llm"
    /\ UNCHANGED <<message, vectorContext, vectorSources, fullContent, written, ended,
                   response, retrieval, yielded, llm, disconnect>>

\* getLLMResponse resolved: the sources are combined and the response is sent
ChatLLMResolves(llmContent) ==
    /\ pc = "c_llm"
    /\ llm' = [llm EXCEPT !.state = "ok"]
    /\ response' = [NoResponse EXCEPT
                      !.status = 200,
                      !.content = IF llmContent # << >> THEN llmContent
                                  ELSE <<"You said: \"">> \o message
                                       \o <<"\". Please configure LLM API key.">>,
                      !.sources = CombineSources(vectorSources, web3Context)]
    /\ ended' = ended + 1
    /\ pc' = "done"
    /\ UNCHANGED <<message, vectorContext, vectorSources, web3Context, combinedContext,
                   fullContent, written, calls, retrieval, yielded, disconnect>>

\* Variant of ChatLLMRejects: the missing-key response carries the combined sources
ChatLLMRejectsAttaches(error) ==
    /\ pc = "c_llm"
    /\ llm' = [state |-> "threw", error |-> error]
    /\ response' =
         IF IncludesApiKey(error.message)
         THEN [NoResponse EXCEPT
                 !.status = 200,
                 !.content = <<"To use this feature, please configure your LLM API key in the backend/.env file. Error: ">>
                             \o error.message,
                 !.sources = CombineSources(vectorSources, web3Context)]
         ELSE [NoResponse EXCEPT
                 !.status = 500,
                 !.error = IF ~error.hasMessage THEN TypeErrorMessage
                           ELSE IF error.message # << >> THEN error.message
                           ELSE <<"Internal server error">>]
    /\ ended' = ended + 1
    /\ pc' = "done"
    /\ UNCHANGED <<message, vectorContext, vectorSources, web3Context, combinedContext,
                   fullContent, written, calls, retrieval, yielded, disconnect>>

\* getLLMResponse rejected: the catch of step 4, and the outer catch on a rethrow or
\* when error.message.includes(..) itself throws (error.message is undefined)
ChatLLMRejects(error) ==
    /\ pc = "c_llm"
    /\ llm' = [state |-> "threw", error |-> error]
    /\ response' =
         IF IncludesApiKey(error.message)
         THEN [NoResponse EXCEPT
                 !.status = 200,
                 !.content = <<"To use this feature, please configure your LLM API key in the backend/.env file. Error: ">>
                             \o error.message]
         ELSE [NoResponse EXCEPT
                 !.status = 500,
                 !.error = IF ~error.hasMessage THEN TypeErrorMessage
                           ELSE IF error.message # << >> THEN error.message
                           ELSE <<"Internal server error">>]
    /\ ended' = ended + 1
    /\ pc' = "done"
    /\ UNCHANGED <<message, vectorContext, vectorSources, web3Context, combinedContext,
                   fullContent, written, calls, retrieval, yielded, disconnect>>

ChatNext ==
    \/ \E m \in Messages : HandleChatStream(m)
    \/ \E docs \in SimilarDocsResults : StreamSearchResolves(docs)
    \/ \E e \in RetrievalErrors : StreamSearchRejects(e)
    \/ \E ctx \in Web3Contexts : StreamWeb3Resolves(ctx)
    \/ \E c \in Chunks : StreamChunk(c)
    \/ StreamEnds
    \/ \E e \in CompletionErrors : StreamThrows(e)
    \/ ClientDisconnects
    \/ \E m \in Messages : HandleChat(m)
    \/ \E docs \in SimilarDocsResults : ChatSearchResolves(docs)
    \/ \E e \in RetrievalErrors : ChatSearchRejects(e)
    \/ \E ctx \in Web3Contexts : ChatWeb3Resolves(ctx)
    \/ \E c \in Completions : ChatLLMResolves(c)
    \/ \E e \in CompletionErrors : ChatLLMRejects(e)

(***************************************************************************)
(* Vector store: searchSimilar.  Similarities are in tenths.               *)
(***************************************************************************)
MinSimilarity == 6
StoredIds == {1, 2, 3}
Similarities == {5, 7, 9}

\* Metadata keys, as their characters
SourceKey == <<"s", "o", "u", "r", "c", "e">>
RankKey == <<"_", "r", "1">>
SemicolonKey == <<"a", ";", "b">>
DigitKey == <<"1", "a">>
MetaKeys == {SourceKey, RankKey}

\* The metadata of the stored documents; Undefined marks a key the document lacks
StoredMetadata ==
    [id \in StoredIds |->
        [k \in MetaKeys |->
            CASE id = 1 -> IF k = SourceKey THEN "A" ELSE "5"
              [] id = 2 -> IF k = SourceKey THEN "B" ELSE Undefined
              [] OTHER -> IF k = SourceKey THEN "a" ELSE Undefined]]

\* A row of document_embeddings as the SELECT returns it
Row(id, similarity) ==
    [id |-> id, content |-> <<"content", id>>, metadata |-> StoredMetadata[id],
     similarity |-> similarity]

\* parseFloat(row.similarity): the store hands the float over as a number
ParseFloat(x) == x

\* JavaScript values a filter can hold, with String(value) in str and, for an array,
\* String(v) of its elements in items
JsNull == [type |-> "null", str |-> "null", items |-> << >>, ops |-> << >>]
JsString(x) == [type |-> "string", str |-> x, items |-> << >>, ops |-> << >>]
JsNumber(x) == [type |-> "number", str |-> x, items |-> << >>, ops |-> << >>]
JsBoolean(b) ==
    [type |-> "boolean", str |-> IF b THEN "true" ELSE "false", items |-> << >>, ops |-> << >>]
JsArray(items) == [type |-> "array", str |-> "", items |-> items, ops |-> << >>]
JsObject(ops) == [type |-> "object", str |-> "[object Object]", items |-> << >>, ops |-> ops]
Op(op, val) == [op |-> op, val |-> val]

\* if (opValue)
JsTruthy(v) ==
    CASE v.type = "null" -> FALSE
      [] v.type = "boolean" -> v.str = "true"
      [] v.type = "number" -> v.str # "0"
      [] v.type = "string" -> v.str # ""
      [] OTHER -> TRUE

\* /^[a-zA-Z_][a-zA-Z0-9_]*$/.test(key)
IsLetter(c) == c \in {"a", "b", "c", "e", "o", "r", "s", "u", "_"}
IsDigit(c) == c \in {"1"}
IsValidKey(key) ==
    /\ key # << >>
    /\ IsLetter(key[1])
    /\ \A i \in 2..Len(key) : IsLetter(key[i]) \/ IsDigit(key[i])

\* One pushed condition: its SQL form, the key, and the placeholders $first .. it uses
Condition(kind, key, first, count) ==
    [kind |-> kind, key |-> key, first |-> first, count |-> count]

\* Variant of OpStep: $exists also advances paramIndex
OpStepExistsAdvances(key, o, acc) ==
    IF o.op = "$in" /\ o.val.type = "array"
    THEN IF o.val.items = << >> THEN acc
         ELSE [conds |-> Append(acc.conds,
                                Condition("in", key, acc.paramIndex, Len(o.val.items))),
               params |-> acc.params \o o.val.items,
               paramIndex |-> acc.paramIndex + Len(o.val.items)]
    ELSE IF o.op \in {"$like", "$ilike"} /\ o.val.type = "string"
    THEN [conds |-> Append(acc.conds,
                           Condition(IF o.op = "$ilike" THEN "ilike" ELSE "like", key,
                                     acc.paramIndex, 1)),
          params |-> Append(acc.params, o.val.str),
          paramIndex |-> acc.paramIndex + 1]
    ELSE IF o.op = "$exists"
    THEN [acc EXCEPT !.conds = Append(acc.conds,
                                      Condition(IF JsTruthy(o.val) THEN "exists"
                                                ELSE "notexists", key, acc.paramIndex, 0)),
                     !.paramIndex = acc.paramIndex + 1]
    ELSE acc

\* The body of the loop over the operators of one entry
OpStep(key, o, acc) ==
    IF o.op = "$in" /\ o.val.type = "array"
    THEN IF o.val.items = << >> THEN acc
         ELSE [conds |-> Append(acc.conds,
                                Condition("in", key, acc.paramIndex, Len(o.val.items))),
               params |-> acc.params \o o.val.items,
               paramIndex |-> acc.paramIndex + Len(o.val.items)]
    ELSE IF o.op \in {"$like", "$ilike"} /\ o.val.type = "string"
    THEN [conds |-> Append(acc.conds,
                           Condition(IF o.op = "$ilike" THEN "ilike" ELSE "like", key,
                                     acc.paramIndex, 1)),
          params |-> Append(acc.params, o.val.str),
          paramIndex |-> acc.paramIndex + 1]
    ELSE IF o.op = "$exists"
    THEN [acc EXCEPT !.conds = Append(acc.conds,
                                      Condition(IF JsTruthy(o.val) THEN "exists"
                                                ELSE "notexists", key, acc.paramIndex, 0))]
    ELSE acc

RECURSIVE BuildOps(_, _, _)
BuildOps(key, ops, acc) ==
    IF ops = << >> THEN acc ELSE BuildOps(key, Tail(ops), OpStep(key, Head(ops), acc))

\* Variant of EntryStep: the key is not tested
EntryStepAnyKey(e, acc) ==
    IF e.value.type = "null" THEN acc
    ELSE IF e.value.type \in {"string", "number", "boolean"}
    THEN [conds |-> Append(acc.conds, Condition("eq", e.key, acc.paramIndex, 1)),
          params |-> Append(acc.params, e.value.str),
          paramIndex |-> acc.paramIndex + 1]
    ELSE IF e.value.type = "object" THEN BuildOps(e.key, e.value.ops, acc)
    ELSE acc

\* The body of the loop over the entries of the filter
EntryStep(e, acc) ==
    IF e.value.type = "null" THEN acc
    ELSE IF ~IsValidKey(e.key) THEN acc
    ELSE IF e.value.type \in {"string", "number", "boolean"}
    THEN [conds |-> Append(acc.conds, Condition("eq", e.key, acc.paramIndex, 1)),
          params |-> Append(acc.params, e.value.str),
          paramIndex |-> acc.paramIndex + 1]
    ELSE IF e.value.type = "object" THEN BuildOps(e.key, e.value.ops, acc)
    ELSE acc

RECURSIVE BuildEntries(_, _)
BuildEntries(entries, acc) ==
    IF entries = << >> THEN acc ELSE BuildEntries(Tail(entries), EntryStep(Head(entries), acc))

\* buildMetadataFilter(metadataFilter)
BuildMetadataFilter(filter) ==
    LET built == BuildEntries(filter, [conds |-> << >>, params |-> << >>, paramIndex |-> 4])
    IN [filterConditions |-> built.conds, filterParams |-> built.params]

\* The parameters bound to $1, $2, ..: the embedding, minSimilarity, limit, filterParams
BoundParams(params) == <<"$1", "$2", "$3">> \o params

\* The placeholders the statement refers to
Placeholders(conds) ==
    {1, 2, 3} \cup UNION {c.first..(c.first + c.count - 1) : c \in SeqRange(conds)}

\* The server binds the statement only when every parameter handed over is referred
\* to and every placeholder has a parameter
StatementBinds(conds, params) == Placeholders(conds) = 1..Len(BoundParams(params))

\* metadata->>'key'
MetaText(md, key) == IF key \in DOMAIN md THEN md[key] ELSE Undefined

LowerText(x) == IF x = "A" THEN "a" ELSE IF x = "B" THEN "b" ELSE x

\* text LIKE pattern, for a pattern that is "%" or has no wild card
Like(text, pattern) == pattern = "%" \/ text = pattern

\* One condition of the WHERE clause on one row; a comparison with NULL is not true
ConditionHolds(c, md, bound) ==
    LET text == MetaText(md, c.key)
    IN CASE c.kind = "eq" -> text # Undefined /\ text = bound[c.first]
         [] c.kind = "in" ->
              text # Undefined /\ \E i \in 0..(c.count - 1) : text = bound[c.first + i]
         [] c.kind = "like" -> text # Undefined /\ Like(text, bound[c.first])
         [] c.kind = "ilike" ->
              text # Undefined /\ Like(LowerText(text), LowerText(bound[c.first]))
         [] c.kind = "exists" -> text # Undefined
         [] c.kind = "notexists" -> text = Undefined

\* Variant of QueryRows: the WHERE clause holds the similarity test only
QueryRowsUnfiltered(sim, minSimilarity, lim, conds, params) ==
    LET hits == {d \in StoredIds : sim[d] >= minSimilarity}
        ranked == {s \in SeqsUpTo(hits, Cardinality(hits)) :
                     /\ Len(s) = Cardinality(hits)
                     /\ NoDup(s)
                     /\ \A i \in 1..(Len(s) - 1) : sim[s[i]] >= sim[s[i + 1]]}
    IN {[i \in 1..Len(Slice0(s, lim)) |-> Row(s[i], sim[s[i]])] : s \in ranked}

\* The rows one SELECT may return for a variant whose similarity to document d is
\* sim[d]: those at or above the threshold that meet every filter condition, nearest
\* first (rows at the same distance in any order), cut at LIMIT.
QueryRows(sim, minSimilarity, lim, conds, params) ==
    LET hits == {d \in StoredIds :
                    /\ sim[d] >= minSimilarity
                    /\ \A c \in SeqRange(conds) :
                          ConditionHolds(c, StoredMetadata[d], BoundParams(params))}
        ranked == {s \in SeqsUpTo(hits, Cardinality(hits)) :
                     /\ Len(s) = Cardinality(hits)
                     /\ NoDup(s)
                     /\ \A i \in 1..(Len(s) - 1) : sim[s[i]] >= sim[s[i + 1]]}
    IN {[i \in 1..Len(Slice0(s, lim)) |-> Row(s[i], sim[s[i]])] : s \in ranked}

\* resultsMap.get(id), as the index of the entry or 0
IndexOfId(m, id) ==
    IF \E i \in 1..Len(m) : m[i].id = id
    THEN CHOOSE i \in 1..Len(m) : m[i].id = id
    ELSE 0

\* The forEach body with the comparison dropped: the row seen last wins
MergeRowLast(m, row) ==
    LET existing == IndexOfId(m, row.id)
        entry == [id |-> row.id, content |-> row.content, metadata |-> row.metadata,
                  similarity |-> ParseFloat(row.similarity)]
    IN IF existing = 0 THEN Append(m, entry) ELSE [m EXCEPT ![existing] = entry]

\* The body of result.rows.forEach for one row
MergeRow(m, row) ==
    LET existing == IndexOfId(m, row.id)
        similarity == ParseFloat(row.similarity)
        entry == [id |-> row.id, content |-> row.content, metadata |-> row.metadata,
                  similarity |-> similarity]
    IN IF existing = 0 THEN Append(m, entry)
       ELSE IF similarity > m[existing].similarity THEN [m EXCEPT ![existing] = entry]
       ELSE m

\* result.rows.forEach(..)
RECURSIVE MergeRows(_, _)
MergeRows(m, rows) ==
    IF rows = << >> THEN m ELSE MergeRows(MergeRow(m, Head(rows)), Tail(rows))

\* Array.prototype.sort((a, b) => b.similarity - a.similarity), which is stable
RECURSIVE InsertDesc(_, _)
InsertDesc(sorted, x) ==
    IF sorted = << >> THEN <<x>>
    ELSE IF Head(sorted).similarity >= x.similarity
         THEN <<Head(sorted)>> \o InsertDesc(Tail(sorted), x)
         ELSE <<x>> \o sorted

RECURSIVE SortDesc(_)
SortDesc(s) ==
    IF s = << >> THEN << >>
    ELSE InsertDesc(SortDesc(SubSeq(s, 1, Len(s) - 1)), s[Len(s)])

\* Variant of CombinedResults: the merged values are cut without being sorted
CombinedResultsUnsorted(m, lim) == Slice0(m, lim)

\* Variant of CombinedResults: the merged values are cut before they are sorted
CombinedResultsCutFirst(m, lim) == SortDesc(Slice0(m, lim))

\* Array.from(resultsMap.values()).sort(..).slice(0, limit)
CombinedResults(m, lim) == Slice0(SortDesc(m), lim)

\* String.prototype.toLowerCase, token by token
Lower(tok) ==
    CASE tok = "What" -> "what"
      [] tok = "Who" -> "who"
      [] tok = "Tell" -> "tell"
      [] tok = "DeFi" -> "defi"
      [] OTHER -> tok

ToLowerCase(s) == [i \in 1..Len(s) |-> Lower(s[i])]

\* String.prototype.startsWith
StartsWith(s, prefix) == Len(s) >= Len(prefix) /\ SubSeq(s, 1, Len(prefix)) = prefix

\* trimmed.replace(/\?+$/, '')
RECURSIVE StripQuestionMarks(_)
StripQuestionMarks(s) ==
    IF s # << >> /\ s[Len(s)] = "?" THEN StripQuestionMarks(SubSeq(s, 1, Len(s) - 1)) ELSE s

\* const templates
Templates(normalized) ==
    << <<"What", " ", "is", " ">> \o normalized \o <<"?">>,
       <<"Explain", " ">> \o normalized,
       <<"Detailed", " ", "overview", " ", "of", " ">> \o normalized,
       <<"How", " ", "does", " ">> \o normalized \o <<" ", "work", "?">>,
       <<"Key", " ", "facts", " ", "about", " ">> \o normalized >>

\* Variant of SetAdd: the value is appended whether or not the set holds it
SetAddAgain(variants, v) == Append(variants, v)

\* Set.prototype.add, the set kept as the sequence of its values in insertion order
SetAdd(variants, v) == IF v \in SeqRange(variants) THEN variants ELSE Append(variants, v)

\* templates.forEach(template => ..)
RECURSIVE AddTemplates(_, _, _)
AddTemplates(variants, templates, maxV) ==
    IF templates = << >> THEN variants
    ELSE AddTemplates(IF Len(variants) >= maxV THEN variants
                      ELSE SetAdd(variants, Head(templates)),
                      Tail(templates), maxV)

\* Variant of IsQuestionForm: only 'what is ' counts as a question
IsQuestionFormWhatOnly(lower) == StartsWith(lower, <<"what", " ", "is", " ">>)

IsQuestionForm(lower) ==
    \/ StartsWith(lower, <<"what", " ", "is", " ">>)
    \/ StartsWith(lower, <<"who", " ", "is", " ">>)
    \/ StartsWith(lower, <<"tell", " ", "me", " ", "about", " ">>)

\* generateQueryVariants(query, maxVariants)
GenerateQueryVariants(q, maxV) ==
    LET trimmed == Trim(q)
        normalized == StripQuestionMarks(trimmed)
        lower == ToLowerCase(normalized)
        fromTemplates == AddTemplates(<<trimmed>>, Templates(normalized), maxV)
        variants == IF IsQuestionForm(lower) /\ Len(fromTemplates) < maxV
                    THEN SetAdd(fromTemplates, normalized)
                    ELSE fromTemplates
    IN IF trimmed = << >> THEN << >> ELSE Slice0(variants, maxV)

\* Queries a caller may pass to searchSimilar: optional white space, an optional
\* opening phrase, an optional subject, question marks, optional white space
QueryOpenings ==
    { << >>, <<"What", " ", "is", " ">>, <<"what", " ", "is", " ">>, <<"Who", " ", "is", " ">>,
      <<"Tell", " ", "me", " ", "about", " ">>, <<"Explain", " ">> }
QuerySubjects == { << >>, <<"DeFi">>, <<"defi", " ", "lending">> }
QueryEndings == { << >>, <<"?">>, <<"?", "?">>, <<"?", " ">>, <<" ">> }
AllQueries ==
    { lead \o opening \o subject \o ending :
        lead \in {<< >>, <<" ">>}, opening \in QueryOpenings, subject \in QuerySubjects,
        ending \in QueryEndings }
WhatIsDeFi == <<"What", " ", "is", " ", "DeFi", "?">>
SearchQueries == {<<" ">>, WhatIsDeFi}

\* The filters the client builds from the sources selected in its side bar:
\* filters.source = selectedSources.length === 1 ? selectedSources[0] : selectedSources
BuildFilters(selectedSources) ==
    IF Len(selectedSources) = 0 THEN << >>
    ELSE <<[key |-> SourceKey,
            value |-> IF Len(selectedSources) = 1 THEN JsString(selectedSources[1])
                      ELSE JsArray(selectedSources)]>>

\* Filters a caller may pass: entries [key, value] in the order of Object.entries
FilterValues ==
    { JsNull, JsString("A"), JsNumber("5"), JsArray(<<"A", "B">>),
      JsObject(<<Op("$in", JsArray(<<"A", "B">>))>>),
      JsObject(<<Op("$in", JsArray(<< >>))>>),
      JsObject(<<Op("$in", JsString("A"))>>),
      JsObject(<<Op("$like", JsString("%"))>>),
      JsObject(<<Op("$ilike", JsString("b"))>>),
      JsObject(<<Op("$like", JsNumber("5"))>>),
      JsObject(<<Op("$exists", JsBoolean(TRUE))>>),
      JsObject(<<Op("$exists", JsNumber("0"))>>),
      JsObject(<<Op("$regex", JsString("A"))>>),
      JsObject(<<Op("$exists", JsString("yes")), Op("$near", JsNull),
                 Op("$in", JsArray(<<"A", "a">>))>>) }
FilterKeys == {SourceKey, RankKey, SemicolonKey, DigitKey}
FilterEntries == {[key |-> k, value |-> v] : k \in FilterKeys, v \in FilterValues}
FilterPairs ==
    {<<e1, e2>> : e1 \in {e \in FilterEntries : e.key \in {RankKey, SemicolonKey}},
                  e2 \in {e \in FilterEntries : e.key = SourceKey}}
Filters == {<< >>} \cup {<<e>> : e \in FilterEntries} \cup FilterPairs
SourceInAB == <<[key |-> SourceKey, value |-> JsObject(<<Op("$in", JsArray(<<"A", "B">>))>>)]>>

\* Similarities of the filtered runs: the documents ranked 1, 2, 3 with the third
\* below the threshold, or ranked 3, 2, 1
FilterSimilarities == {[d \in StoredIds |-> 11 - 2 * d], [d \in StoredIds |-> 6 + d]}

SearchInit ==
    /\ spc = "idle"
    /\ query = << >>
    /\ limit = 1
    /\ maxVariants = 1
    /\ expansionEnabled = TRUE
    /\ metadataFilter = << >>
    /\ filterConditions = << >>
    /\ filterParams = << >>
    /\ queries = << >>
    /\ vi = 0
    /\ simOf = << >>
    /\ rowsOf = << >>
    /\ resultsMap = << >>
    /\ searchResult = << >>

\* searchSimilar is called: the empty-query test, the variants, buildMetadataFilter
\* and the first `await getEmbedding(variant)`
SearchSimilar(q, lim, maxV, expansion, filter) ==
    /\ spc = "idle"
    /\ query' = q
    /\ limit' = lim
    /\ maxVariants' = maxV
    /\ expansionEnabled' = expansion
    /\ metadataFilter' = filter
    /\ IF Len(Trim(q)) = 0
       THEN /\ spc' = "threw"
            /\ UNCHANGED <<queries, vi, filterConditions, filterParams>>
       ELSE /\ spc' = "embed"
            /\ queries' = IF expansion THEN GenerateQueryVariants(q, maxV) ELSE <<Trim(q)>>
            /\ filterConditions' = BuildMetadataFilter(filter).filterConditions
            /\ filterParams' = BuildMetadataFilter(filter).filterParams
            /\ vi' = 1
    /\ UNCHANGED <<simOf, rowsOf, resultsMap, searchResult>>

\* getEmbedding(variant) resolved; pool.query is issued
EmbeddingResolves(sim) ==
    /\ spc = "embed"
    /\ simOf' = Append(simOf, sim)
    /\ spc' = "query"
    /\ UNCHANGED <<query, limit, maxVariants, expansionEnabled, metadataFilter, filterConditions,
                   filterParams, queries, vi, rowsOf, resultsMap,
                   searchResult>>

\* getEmbedding(variant) rejected: the catch logs and rethrows
EmbeddingRejects ==
    /\ spc = "embed"
    /\ spc' = "threw"
    /\ UNCHANGED <<query, limit, maxVariants, expansionEnabled, metadataFilter, filterConditions,
                   filterParams, queries, vi, simOf, rowsOf,
                   resultsMap, searchResult>>

\* pool.query resolved (the statement was bound and run): the rows are merged; after the last variant the merged
\* values are sorted, cut and returned
QueryResolves(rows) ==
    /\ spc = "query"
    /\ StatementBinds(filterConditions, filterParams)
    /\ rows \in QueryRows(simOf[vi], MinSimilarity, limit, filterConditions, filterParams)
    /\ rowsOf' = Append(rowsOf, rows)
    /\ resultsMap' = MergeRows(resultsMap, rows)
    /\ IF vi < Len(queries)
       THEN /\ vi' = vi + 1
            /\ spc' = "embed"
            /\ UNCHANGED searchResult
       ELSE /\ searchResult' = CombinedResults(resultsMap', limit)
            /\ spc' = "done"
            /\ UNCHANGED vi
    /\ UNCHANGED <<query, limit, maxVariants, expansionEnabled, metadataFilter, filterConditions,
                   filterParams, queries, simOf>>

\* Variant of QueryRejects: the failed variant is given up and what the earlier
\* variants found is returned
QueryRejectsKeepsCollected ==
    /\ spc = "query"
    /\ searchResult' = CombinedResults(resultsMap, limit)
    /\ spc' = "done"
    /\ UNCHANGED <<query, limit, maxVariants, expansionEnabled, metadataFilter, filterConditions,
                   filterParams, queries, vi, simOf, rowsOf, resultsMap>>

\* pool.query rejected: the catch logs and rethrows
QueryRejects ==
    /\ spc = "query"
    /\ spc' = "threw"
    /\ UNCHANGED <<query, limit, maxVariants, expansionEnabled, metadataFilter, filterConditions,
                   filterParams, queries, vi, simOf, rowsOf,
                   resultsMap, searchResult>>

SearchNext ==
    \/ \E q \in SearchQueries, l \in 1..MaxLimit, n \in 1..MaxVariants, e \in BOOLEAN :
          SearchSimilar(q, l, n, e, << >>)
    \/ \E sim \in [StoredIds -> Similarities] : EmbeddingResolves(sim)
    \/ EmbeddingRejects
    \/ /\ spc = "query"
       /\ StatementBinds(filterConditions, filterParams)
       /\ \E rows \in QueryRows(simOf[vi], MinSimilarity, limit, filterConditions, filterParams) :
             QueryResolves(rows)
    \/ QueryRejects

(***************************************************************************)
(* Vector store: addDocuments and deleteDocument on the table.             *)
(***************************************************************************)
\* result.rows[0]?.id: an id, or undefined
SomeId(id) == [tag |-> "id", id |-> id]
NoId == [tag |-> "undefined", id |-> 0]

IdleOp ==
    [name |-> "none", state |-> "idle", id |-> 0, n |-> 0, i |-> 0, ids |-> << >>,
     ret |-> NoId, retIds |-> << >>,
     \* bookkeeping: the table when the call was made
     before |-> {}]

\* Variant of DeleteFrom: the statement has no WHERE clause
DeleteFromAll(tbl, id) == [table |-> {}, rows |-> IF id \in tbl THEN <<id>> ELSE << >>]

\* DELETE FROM document_embeddings WHERE id = $1 RETURNING id
DeleteFrom(tbl, id) ==
    [table |-> tbl \ {id}, rows |-> IF id \in tbl THEN <<id>> ELSE << >>]

StoreInit ==
    /\ table = {}
    /\ nextId = 1
    /\ storeOp = IdleOp

\* deleteDocument(id) is called and issues its statement
DeleteDocument(id) ==
    /\ storeOp.state = "idle"
    /\ storeOp' = [IdleOp EXCEPT !.name = "delete", !.state = "wait_delete", !.id = id,
                            !.before = table]
    /\ UNCHANGED <<table, nextId>>

\* The statement ran: return result.rows[0]?.id
DeleteResolves ==
    /\ storeOp.state = "wait_delete"
    /\ LET done == DeleteFrom(table, storeOp.id)
       IN /\ table' = done.table
          /\ storeOp' = [storeOp EXCEPT !.state = "returned",
                              !.ret = IF done.rows = << >> THEN NoId ELSE SomeId(done.rows[1])]
    /\ UNCHANGED nextId

\* pool.query rejected: the catch logs and rethrows
DeleteRejects ==
    /\ storeOp.state = "wait_delete"
    /\ storeOp' = [storeOp EXCEPT !.state = "threw"]
    /\ UNCHANGED <<table, nextId>>

\* addDocuments(documents) is called with n documents; an empty array throws
AddDocuments(n) ==
    /\ storeOp.state = "idle"
    /\ nextId + n - 1 <= MaxId
    /\ storeOp' = [IdleOp EXCEPT !.name = "add", !.n = n, !.before = table,
                            !.state = IF n = 0 THEN "threw" ELSE "wait_embed"]
    /\ UNCHANGED <<table, nextId>>

\* getEmbeddings resolved: the first INSERT is issued
EmbeddingsResolve ==
    /\ storeOp.state = "wait_embed"
    /\ storeOp' = [storeOp EXCEPT !.state = "wait_insert", !.i = 1]
    /\ UNCHANGED <<table, nextId>>

\* getEmbeddings rejected: the catch logs and rethrows
EmbeddingsReject ==
    /\ storeOp.state = "wait_embed"
    /\ storeOp' = [storeOp EXCEPT !.state = "threw"]
    /\ UNCHANGED <<table, nextId>>

\* The INSERT of document i ran, each statement in its own transaction: its id is
\* pushed, and the next INSERT is issued or the ids are returned
InsertResolves ==
    /\ storeOp.state = "wait_insert"
    /\ table' = table \cup {nextId}
    /\ nextId' = nextId + 1
    /\ storeOp' = IF storeOp.i < storeOp.n
             THEN [storeOp EXCEPT !.ids = Append(storeOp.ids, nextId), !.i = storeOp.i + 1]
             ELSE [storeOp EXCEPT !.ids = Append(storeOp.ids, nextId), !.state = "returned",
                             !.retIds = Append(storeOp.ids, nextId)]

\* The INSERT of document i was rejected: the catch logs and rethrows
InsertRejects ==
    /\ storeOp.state = "wait_insert"
    /\ storeOp' = [storeOp EXCEPT !.state = "threw"]
    /\ UNCHANGED <<table, nextId>>

\* The caller has the outcome; the next call can be made
StoreSettle ==
    /\ storeOp.state \in {"returned", "threw"}
    /\ storeOp' = IdleOp
    /\ UNCHANGED <<table, nextId>>

StoreNext ==
    \/ \E id \in 1..MaxId : DeleteDocument(id)
    \/ DeleteResolves
    \/ DeleteRejects
    \/ \E n \in 0..MaxBatch : AddDocuments(n)
    \/ EmbeddingsResolve
    \/ EmbeddingsReject
    \/ InsertResolves
    \/ InsertRejects
    \/ StoreSettle

(***************************************************************************)
(* Client: the Server-Sent Events read loop of handleSend.  Text is a      *)
(* sequence of pieces; a read boundary can fall between any two pieces.    *)
(***************************************************************************)
EventPrefix == <<"eve", "nt: ">>
DataPrefix == <<"da", "ta: ">>

EventName(event) ==
    CASE event = "sources" -> <<"sou", "rces">>
      [] event = "start" -> <<"sta", "rt">>
      [] event = "chunk" -> <<"chu", "nk">>
      [] event = "done" -> <<"do", "ne">>
      [] event = "error" -> <<"err", "or">>

\* JSON.stringify(data) of the event's payload
Stringify(event) == <<"{", event, "}">>

\* The names handleSend has a branch for
HandledNames == {EventName(e) : e \in {"sources", "chunk", "done", "error"}}

\* sendEvent: res.write(`event: ${event}\n`); res.write(`data: ${JSON.stringify(data)}\n\n`)
SendEventBytes(event) ==
    EventPrefix \o EventName(event) \o <<"\n">>
    \o DataPrefix \o Stringify(event) \o <<"\n", "\n">>

RECURSIVE BodyOf(_)
BodyOf(events) ==
    IF events = << >> THEN << >> ELSE SendEventBytes(Head(events)) \o BodyOf(Tail(events))

\* The event sequences handleChatStream writes: sources, start, chunks, then done or error
SentSequences ==
    { <<"sources", "start">> \o [i \in 1..n |-> "chunk"] \o <<last>> :
        n \in 0..(MaxSent - 3), last \in {"done", "error"} }

\* buffer.split('\n'): the pieces between consecutive newlines, the text before the
\* first and after the last included
SplitLines(text) ==
    LET newlines == {i \in 1..Len(text) : text[i] = "\n"}
        \* position of the j-th newline; 0 and Len(text) + 1 bracket the text
        At(j) == IF j = 0 THEN 0
                 ELSE IF j > Cardinality(newlines) THEN Len(text) + 1
                 ELSE CHOOSE i \in newlines : Cardinality({m \in newlines : m < i}) = j - 1
    IN [j \in 1..(Cardinality(newlines) + 1) |-> SubSeq(text, At(j - 1) + 1, At(j) - 1)]

\* JSON.parse(dataStr) succeeds
ParsesAsJson(dataStr) ==
    Len(dataStr) = 3 /\ dataStr[1] = "{" /\ dataStr[3] = "}"

NoClient == [buffer |-> << >>, currentEvent |-> << >>, dispatched |-> << >>, broke |-> FALSE]

\* One iteration of `for (let i = 0; i < lines.length; i++)`; broke records the break
\* of the error branch
ProcessLine(c, line) ==
    IF c.broke THEN c
    ELSE IF StartsWith(line, EventPrefix)
    THEN [c EXCEPT !.currentEvent = SubSeq(line, 3, Len(line))]
    ELSE IF StartsWith(line, DataPrefix)
    THEN LET dataStr == SubSeq(line, 3, Len(line))
         IN IF dataStr # << >> /\ c.currentEvent # << >> /\ ParsesAsJson(dataStr)
            THEN IF c.currentEvent \in HandledNames
                 THEN [c EXCEPT
                         !.dispatched = Append(@, [event |-> c.currentEvent, data |-> dataStr[2]]),
                         !.broke = (c.currentEvent = EventName("error")),
                         !.currentEvent = IF c.currentEvent = EventName("error") THEN @
                                          ELSE << >>]
                 ELSE [c EXCEPT !.currentEvent = << >>]
            ELSE [c EXCEPT !.currentEvent = << >>]
    ELSE IF line = << >>
    THEN [c EXCEPT !.currentEvent = << >>]
    ELSE [c EXCEPT !.buffer = line \o <<"\n">>]

RECURSIVE ProcessLines(_, _)
ProcessLines(c, lines) ==
    IF lines = << >> THEN c ELSE ProcessLines(ProcessLine(c, Head(lines)), Tail(lines))

\* The body of the while loop for one value of reader.read()
ProcessRead(c, value) ==
    ProcessLines([c EXCEPT !.buffer = << >>, !.broke = FALSE], SplitLines(c.buffer \o value))

ClientInit ==
    /\ sent = << >>
    /\ unread = << >>
    /\ buffer = << >>
    /\ currentEvent = << >>
    /\ dispatched = << >>
    /\ reading = "idle"

\* handleSend up to the first reader.read(), the server writing `events` in reply
HandleSend(events) ==
    /\ reading = "idle"
    /\ sent' = events
    /\ unread' = BodyOf(events)
    /\ buffer' = << >>
    /\ currentEvent' = << >>
    /\ dispatched' = << >>
    /\ reading' = "open"

\* reader.read() resolved with the next k pieces of the body: one pass of the loop
ReadValue(k) ==
    /\ reading = "open"
    /\ k \in 1..Len(unread)
    /\ LET c == ProcessRead([NoClient EXCEPT !.buffer = buffer,
                                            !.currentEvent = currentEvent,
                                            !.dispatched = dispatched],
                            SubSeq(unread, 1, k))
       IN /\ buffer' = c.buffer
          /\ currentEvent' = c.currentEvent
          /\ dispatched' = c.dispatched
    /\ unread' = SubSeq(unread, k + 1, Len(unread))
    /\ UNCHANGED <<sent, reading>>

\* reader.read() resolved with done: the loop is left
ReadDone ==
    /\ reading = "open"
    /\ unread = << >>
    /\ reading' = "closed"
    /\ UNCHANGED <<sent, unread, buffer, currentEvent, dispatched>>

\* The finally of handleSend; the next message can be sent
SendSettles ==
    /\ reading = "closed"
    /\ reading' = "idle"
    /\ UNCHANGED <<sent, unread, buffer, currentEvent, dispatched>>

ClientNext ==
    \/ /\ reading = "idle"
       /\ \E events \in SentSequences : HandleSend(events)
    \/ \E k \in 1..Len(unread) : ReadValue(k)
    \/ ReadDone
    \/ SendSettles

\* Filtered searches: every filter, one variant or several
FilterNext ==
    \/ /\ spc = "idle"
       /\ \E q \in SearchQueries, f \in Filters, l \in {1, MaxLimit}, n \in {1, MaxVariants} :
             SearchSimilar(q, l, n, TRUE, f)
    \/ \E sim \in FilterSimilarities : EmbeddingResolves(sim)
    \/ EmbeddingRejects
    \/ /\ spc = "query"
       /\ StatementBinds(filterConditions, filterParams)
       /\ \E rows \in QueryRows(simOf[vi], MinSimilarity, limit, filterConditions, filterParams) :
             QueryResolves(rows)
    \/ QueryRejects

\* Query expansion on its own: searchSimilar up to its first await, for every query
VariantsNext ==
    /\ spc = "idle"
    /\ \E q \in AllQueries, n \in 1..MaxAsked : SearchSimilar(q, 1, n, TRUE, << >>)

\* Calls of searchWeb3Context about a coin that interleave at their awaits
ConcurrentQueries == { {"bitcoin"} }
ConcurrentResponses ==
    { resp \in Responses : resp.kind = "json" /\ resp.shape = "list" }
ConcurrentNext ==
    \/ \E r \in Requests :
          \/ \E q \in ConcurrentQueries : SearchWeb3Context(r, q)
          \/ SkipBlock(r)
          \/ CallFeeds(r)
          \/ \E f \in Feeds, resp \in ConcurrentResponses : FetchReturns(r, f, resp)
          \/ Resume(r)
          \/ SearchReturns(r)
          \/ Settle(r)
    \/ Tick

\* The steps of the Web3 service on behalf of call r
Web3Step(r) ==
    \/ \E q \in Queries : SearchWeb3Context(r, q)
    \/ GetWeb3Trends(r)
    \/ SkipBlock(r)
    \/ CallFeeds(r)
    \/ \E f \in Feeds, resp \in Responses : FetchReturns(r, f, resp)
    \/ Resume(r)
    \/ SearchReturns(r)
    \/ Settle(r)

\* Calls made one after the other
Web3Next == Web3Step(1) \/ Tick

(***************************************************************************)
(* Specifications: the three components run on their own.                  *)
(***************************************************************************)
Init == ChatInit /\ Web3Init /\ SearchInit /\ StoreInit /\ ClientInit

SpecChat == Init /\ [][ChatNext /\ UNCHANGED <<web3Vars, searchVars, storeVars, clientVars>>]_vars
SpecWeb3 == Init /\ [][Web3Next /\ UNCHANGED <<chatVars, searchVars, storeVars, clientVars>>]_vars
SpecSearch == Init /\ [][SearchNext /\ UNCHANGED <<chatVars, web3Vars, storeVars, clientVars>>]_vars
SpecFilter == Init /\ [][FilterNext /\ UNCHANGED <<chatVars, web3Vars, storeVars, clientVars>>]_vars
SpecVariants == Init /\ [][VariantsNext /\ UNCHANGED <<chatVars, web3Vars, storeVars, clientVars>>]_vars
SpecStore == Init /\ [][StoreNext /\ UNCHANGED <<chatVars, web3Vars, searchVars, clientVars>>]_vars
SpecClient == Init /\ [][ClientNext /\ UNCHANGED <<chatVars, web3Vars, searchVars, storeVars>>]_vars
SpecConcurrent ==
    Init /\ [][ConcurrentNext /\ UNCHANGED <<chatVars, searchVars, storeVars, clientVars>>]_vars

(***************************************************************************)
(* Properties of the chat controller (SpecChat).                           *)
(***************************************************************************)
EventNames(w) == [i \in 1..Len(w) |-> w[i].event]

\* Whether the request was served by handleChatStream and reached the streaming stage
Streamed == "streamLLMResponse" \in SeqRange(calls)

\* The payloads of the chunk events of w, in order
RECURSIVE ChunkContents(_)
ChunkContents(w) ==
    IF w = << >> THEN << >>
    ELSE IF Head(w).event = "chunk" THEN <<Head(w).data.content>> \o ChunkContents(Tail(w))
    ELSE ChunkContents(Tail(w))

RECURSIVE Flatten(_)
Flatten(ss) == IF ss = << >> THEN << >> ELSE Head(ss) \o Flatten(Tail(ss))

\* sources, start, chunk*, and `last` as the final event
HasShape(w, last) ==
    /\ Len(w) >= 3
    /\ w[1].event = "sources"
    /\ w[2].event = "start"
    /\ w[Len(w)].event = last
    /\ \A i \in 3..(Len(w) - 1) : w[i].event = "chunk"

\* C1: a streaming request whose completion stream ended normally has written exactly
\* sources, start, chunk*, done and has sent nothing else, whatever retrieval and the
\* external-context lookup did.
C1_NormalStreamSequence ==
    (pc = "done" /\ Streamed /\ llm.state = "ok")
        => /\ HasShape(written, "done")
           /\ Len(written) = Len(yielded) + 3
           /\ response = NoResponse

C1_Witness ==
    /\ pc = "done" /\ Streamed /\ llm.state = "ok"
    /\ retrieval.state = "threw"
    /\ web3Context = Fallback
    /\ Len(yielded) = MaxChunks

\* C2: a streaming request whose completion stream failed has written exactly sources,
\* start, the chunks received so far, and one error event as the last event: no done,
\* no second error, nothing after the error.
C2_FailedStreamSequence ==
    (pc = "done" /\ Streamed /\ llm.state = "threw")
        => /\ HasShape(written, "error")
           /\ Len(written) = Len(yielded) + 3
           /\ ChunkContents(written) = yielded
           /\ \A i \in 1..Len(written) : written[i].event # "done"
           /\ response = NoResponse

C2_Witness ==
    /\ pc = "done" /\ Streamed /\ llm.state = "threw"
    /\ llm.error = ApiKeyError
    /\ Len(yielded) >= 1

\* C3: the chunk events carry the chunks in the order the completion stream produced
\* them, one event per chunk, and fullContent of done is the concatenation of the
\* payloads of the chunk events written before it.
C3_ChunksInOrder ==
    /\ ChunkContents(written) = yielded
    /\ (pc = "done" /\ Streamed /\ llm.state = "ok")
          => written[Len(written)].data.fullContent
                = Flatten(ChunkContents(SubSeq(written, 1, Len(written) - 1)))

C3_Witness ==
    /\ pc = "done" /\ Streamed /\ llm.state = "ok"
    /\ yielded = << <<"b", "c">>, <<"a">> >>

\* C4: when searchSimilar fails the handler goes on with no snippet and no retrieved
\* attribution, still calls the external-context lookup and the completion, and the
\* client sees no trace of the failure: no failure response or error event unless the
\* completion itself failed, and only the external attributions.
C4_RetrievalFailureTolerated ==
    retrieval.state = "threw"
        => /\ vectorContext = << >>
           /\ vectorSources = << >>
           /\ pc \in {"s_web3", "c_web3"} => calls = <<"searchSimilar", "searchWeb3Context">>
           /\ pc \in {"s_stream", "c_llm", "done"}
                 => /\ Len(calls) = 3
                    /\ calls[2] = "searchWeb3Context"
                    /\ calls[3] \in {"streamLLMResponse", "getLLMResponse"}
                    /\ combinedContext = CombineContext(<< >>, web3Context.relevantData)
           /\ llm.state # "threw"
                 => /\ response.status \in {0, 200}
                    /\ \A i \in 1..Len(written) : written[i].event # "error"
           /\ (pc = "done" /\ llm.state = "ok" /\ ~Streamed)
                 => response.sources = web3Context.sources
           /\ Len(written) >= 1 => written[1].data.sources = web3Context.sources

C4_Witness ==
    /\ pc = "done"
    /\ retrieval.state = "threw"
    /\ ~Streamed
    /\ response.status = 200
    /\ response.sources = <<CoinGecko, DeFiLlama>>

\* C5: once the client has disconnected, no further event is written and at most the
\* chunk being awaited is still read from the completion stream.
C5_StopsAfterDisconnect ==
    disconnect.gone
        => /\ Len(written) = disconnect.written
           /\ Len(yielded) <= disconnect.pulls + 1

(***************************************************************************)
(* Properties of the Web3 service (SpecWeb3).                              *)
(***************************************************************************)
Returned(r, kind) == req[r].state = "returned" /\ req[r].kind = kind

\* C6: searchWeb3Context never lets an exception out: whatever the feeds answer, a
\* call that returns hands over a text and a list of sources.
C6_NeverRaises ==
    \A r \in Requests :
        /\ req[r].state # "raised"
        /\ Returned(r, "search")
              => /\ req[r].ret.relevantData \in Seq(STRING)
                 /\ req[r].ret.sources \in Seq({CoinGecko, DeFiLlama, Placeholder})

C6_Witness ==
    \E r \in Requests :
        /\ Returned(r, "search")
        /\ req[r].ret = Fallback
        /\ req[r].q = {"bitcoin", "defi"}

\* C7: when every feed fetch of a searchWeb3Context call failed (nothing came from the
\* cache, no upstream answered with an ok status), the call returns the static
\* fallback text with the placeholder source.
C7_UnreachableGivesPlaceholder ==
    \A r \in Requests :
        (Returned(r, "search") /\ req[r].asked # {} /\ req[r].answered = {})
            => req[r].ret = Fallback

\* C8: getWeb3Trends returns three feed results that are each a list, and the result
\* of a feed whose fetch failed is the empty list.
C8_TrendsAreLists ==
    \A r \in Requests :
        Returned(r, "trends")
            => \A f \in Feeds :
                  /\ req[r].trends[f].tag = "list"
                  /\ f \notin req[r].answered => req[r].trends[f] = List(<< >>)

\* C9: a read of a feed whose entry was stored at t returns the stored data without an
\* upstream call while now < t + TTL, and issues an upstream call from t + TTL on; an
\* entry changes only when a fetch of its own feed is answered.
C9_CachedUntilTTL ==
    [][ /\ \A r \in Requests, f \in Feeds :
             (/\ req[r].state = "run"
              /\ req'[r].state = "wait"
              /\ f \in FeedsOf(req[r].phase)
              /\ cache[f].present)
                 => IF now < cache[f].timestamp + CacheTTL
                    THEN f \notin req'[r].pending /\ req'[r].got[f] = cache[f].data
                    ELSE f \in req'[r].pending
        /\ \A f \in Feeds :
             cache'[f] # cache[f] => \E r \in Requests : <<r, f>> \in inflight \ inflight'
      ]_vars

\* C27: whatever the query and the outcome of the feeds, the value searchWeb3Context
\* returns has a text that is not empty and at least one source, so that the context
\* combined from it and the sources list built from it are not empty even when
\* nothing was retrieved.
C27_ContextNeverEmpty ==
    \A r \in Requests :
        (req[r].state = "returned" /\ req[r].kind = "search")
            => /\ req[r].ret.relevantData # << >>
               /\ ~(\A i \in 1..Len(req[r].ret.relevantData) :
                       IsSpace(req[r].ret.relevantData[i]))
               /\ Len(req[r].ret.sources) >= 1
               /\ CombineContext(<< >>, req[r].ret.relevantData) # << >>
               /\ CombineSources(<< >>, req[r].ret) # << >>

\* A query matching no block returned while every feed it consulted had failed
C27_Witness ==
    /\ req[1].state = "returned" /\ req[1].kind = "search"
    /\ req[1].asked = Feeds
    /\ req[1].answered = {}
    /\ req[1].ret.sources = <<CoinGecko>>

\* The fetches that return in this step
Completing == inflight \ inflight'

\* The fetch of `feed` answered by resp ends in the catch of the feed function: the
\* fetch rejected, the status is not ok, the body is no JSON, or mapping it throws
FetchFailed(feed, resp) == resp.kind # "json" \/ MapFeed(feed, resp).threw

\* C28: a fetch that fails returns the empty list and leaves the cache as it was (the
\* empty list is not stored, an entry that exists is kept); and a feed function called
\* while its feed has no valid entry calls upstream.
C28_FailedFetchLeavesCache ==
    [][ /\ \A r \in Requests, f \in Feeds :
             <<r, f>> \in Completing
                => \A resp \in Responses :
                      (FetchFailed(f, resp) /\ FetchReturns(r, f, resp))
                         => /\ cache' = cache
                            /\ req'[r].got[f] = List(<< >>)
        /\ \A r \in Requests :
             (req[r].state = "run" /\ req'[r].state = "wait")
                => \A f \in FeedsOf(req[r].phase) :
                      <<r, f>> \in inflight'
                         <=> ~(cache[f].present /\ now - cache[f].timestamp < CacheTTL
                               /\ cache[f].data.tag = "list") ]_vars

\* The market feed was stored, its entry expired, and the refetch failed: the expired
\* entry is still there and the call has the empty list
C28_Witness ==
    /\ req[1].state = "wait"
    /\ "market_data" \in req[1].asked
    /\ "market_data" \notin (req[1].answered \cup req[1].pending)
    /\ req[1].got["market_data"] = List(<< >>)
    /\ cache["market_data"].present
    /\ cache["market_data"].data.items # << >>
    /\ now - cache["market_data"].timestamp >= CacheTTL

(***************************************************************************)
(* Properties of the vector store search (SpecSearch).                     *)
(***************************************************************************)
\* The similarities the variants searched so far observed for document id
Observed(id) ==
    {s \in Similarities :
        \E v \in 1..Len(rowsOf) : \E i \in 1..Len(rowsOf[v]) :
            rowsOf[v][i].id = id /\ rowsOf[v][i].similarity = s}

\* The variants whose rows hold document id
FoundBy(id) ==
    {v \in 1..Len(rowsOf) : \E i \in 1..Len(rowsOf[v]) : rowsOf[v][i].id = id}

Maximum(S) == CHOOSE x \in S : \A y \in S : y <= x

\* The orders in which n variants can be searched
Orders(n) == {p \in [1..n -> 1..n] : \A i, j \in 1..n : p[i] = p[j] => i = j}

\* The merged map after the variants' rows are merged in the order p
RECURSIVE FuseFrom(_, _, _, _)
FuseFrom(m, rs, p, i) ==
    IF i > Len(rs) THEN m ELSE FuseFrom(MergeRows(m, rs[p[i]]), rs, p, i + 1)

Reported(m) == {<<m[i].id, m[i].similarity>> : i \in 1..Len(m)}

\* C10: a document found by several variants has one entry in the merged map and at
\* most one in the returned list, each with the maximum of the similarities the
\* variants observed for it, and merging the variants' rows in any order reports the
\* same similarity for every document.
C10_FusionKeepsMaximum ==
    /\ \A id \in StoredIds :
          FoundBy(id) # {}
             => /\ Cardinality({i \in 1..Len(resultsMap) : resultsMap[i].id = id}) = 1
                /\ \A i \in 1..Len(resultsMap) :
                      resultsMap[i].id = id
                         => resultsMap[i].similarity = Maximum(Observed(id))
    /\ spc = "done"
          => /\ \A id \in StoredIds :
                   Cardinality({i \in 1..Len(searchResult) : searchResult[i].id = id}) <= 1
             /\ \A i \in 1..Len(searchResult) :
                   /\ FoundBy(searchResult[i].id) # {}
                   /\ searchResult[i].similarity = Maximum(Observed(searchResult[i].id))
             /\ \A p \in Orders(Len(rowsOf)) :
                   LET fused == FuseFrom(<< >>, rowsOf, p, 1)
                   IN /\ Reported(fused) = Reported(resultsMap)
                      /\ \A i \in 1..Len(searchResult) :
                            \A e \in Reported(CombinedResults(fused, limit)) :
                               e[1] = searchResult[i].id => e[2] = searchResult[i].similarity

\* A document found by two variants, the first with the higher similarity, is in the
\* returned list
C10_Witness ==
    /\ spc = "done"
    /\ \E i \in 1..Len(searchResult) :
          /\ Cardinality(FoundBy(searchResult[i].id)) >= 2
          /\ Cardinality(Observed(searchResult[i].id)) >= 2
          /\ \E k \in 1..Len(rowsOf[1]) :
                /\ rowsOf[1][k].id = searchResult[i].id
                /\ rowsOf[1][k].similarity = Maximum(Observed(searchResult[i].id))

\* C11: the list searchSimilar returns has no two entries with the same id, at most
\* `limit` entries, similarities in descending order and none below minSimilarity,
\* for one variant and for several.
C11_ResultListWellFormed ==
    spc = "done"
        => /\ \A i, j \in 1..Len(searchResult) :
                 i # j => searchResult[i].id # searchResult[j].id
           /\ Len(searchResult) <= limit
           /\ \A i \in 1..(Len(searchResult) - 1) :
                 searchResult[i].similarity >= searchResult[i + 1].similarity
           /\ \A i \in 1..Len(searchResult) : searchResult[i].similarity >= MinSimilarity

\* Two variants found more documents than `limit`, the better one last, and the list
\* is full
C11_Witness ==
    /\ spc = "done"
    /\ Len(queries) = 2
    /\ Len(resultsMap) > limit
    /\ Len(searchResult) = limit
    /\ resultsMap[1].similarity < resultsMap[Len(resultsMap)].similarity

\* The documents some variant matches: at or above the threshold and meeting the filter
Matching ==
    {d \in StoredIds :
        /\ \E v \in 1..Len(simOf) : simOf[v][d] >= MinSimilarity
        /\ \A c \in SeqRange(filterConditions) :
              ConditionHolds(c, StoredMetadata[d], BoundParams(filterParams))}

\* The similarity of document d in the ideal fusion: its maximum over all variants
TrueMaximum(d) == Maximum({simOf[v][d] : v \in 1..Len(simOf)})

AtMost(n, m) == IF n < m THEN n ELSE m

\* C23: with an exact store, the similarities of the returned list are those of the
\* top `limit` entries of the ideal fusion (every variant searched without LIMIT, the
\* maximum kept per document), and each returned document is reported with its true
\* maximum over all variants.
C23_TruncationLosesNothing ==
    spc = "done"
        => /\ Len(searchResult) = AtMost(limit, Cardinality(Matching))
           /\ \A x \in Similarities :
                 Cardinality({i \in 1..Len(searchResult) : searchResult[i].similarity >= x})
                    = AtMost(limit, Cardinality({d \in Matching : TrueMaximum(d) >= x}))
           /\ \A i \in 1..Len(searchResult) :
                 searchResult[i].similarity = TrueMaximum(searchResult[i].id)

\* The first variant matched the returned document but LIMIT cut it from that
\* variant's rows; the second variant found it with a higher similarity
C23_Witness ==
    /\ spc = "done"
    /\ Len(rowsOf) = 2
    /\ limit = 1
    /\ Len(searchResult) = 1
    /\ simOf[1][searchResult[1].id] >= MinSimilarity
    /\ \A k \in 1..Len(rowsOf[1]) : rowsOf[1][k].id # searchResult[1].id
    /\ Cardinality(Matching) = 3

\* C24: the variants are embedded and searched one after another, and searchSimilar
\* returns a list only when every variant was embedded and searched; when the
\* embedding or the search of one variant fails it throws and returns nothing,
\* whatever the earlier variants had found.
C24_OneFailureFailsAll ==
    /\ Len(rowsOf) <= Len(simOf) /\ Len(simOf) <= Len(rowsOf) + 1
    /\ spc \in {"embed", "query"} => Len(rowsOf) = vi - 1
    /\ spc = "done" => Len(rowsOf) = Len(queries) /\ Len(simOf) = Len(queries)
    /\ spc = "threw" => searchResult = << >>

\* The search of the second variant failed after the first variant had found documents
C24_Witness ==
    /\ spc = "threw"
    /\ Len(simOf) = 2
    /\ Len(rowsOf) = 1
    /\ resultsMap # << >>
    /\ searchResult = << >>

(***************************************************************************)
(* Properties of query expansion (SpecVariants).                           *)
(***************************************************************************)
\* C12: for a query that is not blank and maxVariants >= 1, generateQueryVariants
\* returns pairwise-distinct non-empty strings, at most maxVariants of them, the first
\* being the trimmed query; for "What is DeFi?" and 3 it returns exactly 3.
C12_VariantsWellFormed ==
    (spc = "embed" /\ expansionEnabled)
        => /\ Len(queries) >= 1
           /\ Len(queries) <= maxVariants
           /\ queries[1] = Trim(query)
           /\ \A i \in 1..Len(queries) : queries[i] # << >>
           /\ \A i, j \in 1..Len(queries) : i # j => queries[i] # queries[j]
           /\ (query = WhatIsDeFi /\ maxVariants = 3)
                 => /\ Len(queries) = 3
                    /\ queries[1] = WhatIsDeFi

\* A question without a question mark, asked with room for every template and for
\* the statement form
C12_Witness ==
    /\ spc = "embed" /\ expansionEnabled
    /\ query = <<" ", "what", " ", "is", " ", "DeFi", " ">>
    /\ maxVariants = MaxAsked
    /\ Len(queries) = 6

\* The interrogative phrases, in lower case
InterrogativePhrases ==
    { <<"what", " ", "is", " ">>, <<"who", " ", "is", " ">>,
      <<"tell", " ", "me", " ", "about", " ">> }

\* The query without surrounding white space and trailing question marks
StatementForm(q) == StripQuestionMarks(Trim(q))

\* C21: after the trimmed query the variants are the templates in their declared
\* order, as many as maxVariants leaves room for; and when the query starts with an
\* interrogative phrase and room remains after all templates, the variants also hold
\* the statement form of the query.
C21_TemplatesThenStatement ==
    (spc = "embed" /\ expansionEnabled)
        => LET templates == Templates(StatementForm(query))
               room == IF maxVariants - 1 < Len(templates) THEN maxVariants - 1
                       ELSE Len(templates)
           IN /\ Len(queries) >= room + 1
              /\ \A i \in 1..room : queries[i + 1] = templates[i]
              /\ ((\E phrase \in InterrogativePhrases :
                       StartsWith(ToLowerCase(Trim(query)), phrase))
                   /\ maxVariants > Len(templates) + 1)
                    => StatementForm(query) \in SeqRange(queries)

\* A 'who is' question ending in a question mark, asked with room for every template
\* and one more: the statement form is the last variant
C21_Witness ==
    /\ spc = "embed" /\ expansionEnabled
    /\ query = <<"Who", " ", "is", " ", "DeFi", "?">>
    /\ maxVariants = MaxAsked
    /\ Len(queries) = 7
    /\ queries[7] = <<"Who", " ", "is", " ", "DeFi">>

(***************************************************************************)
(* Properties of metadata filtering (SpecFilter).                          *)
(***************************************************************************)
\* The SQL forms the operator `o` of an entry stands for, if it is a known operator
\* with an operand of the right kind
KindsOfOp(o) ==
    IF o.op = "$in" THEN (IF o.val.type = "array" /\ o.val.items # << >> THEN {"in"} ELSE {})
    ELSE IF o.op = "$like" THEN (IF o.val.type = "string" THEN {"like"} ELSE {})
    ELSE IF o.op = "$ilike" THEN (IF o.val.type = "string" THEN {"ilike"} ELSE {})
    ELSE IF o.op = "$exists" THEN {IF JsTruthy(o.val) THEN "exists" ELSE "notexists"}
    ELSE {}

\* The SQL forms the entry e stands for; none for an entry that is to be dropped
KindsOfEntry(e) ==
    IF ~IsValidKey(e.key) \/ e.value.type = "null" THEN {}
    ELSE IF e.value.type \in {"string", "number", "boolean"} THEN {"eq"}
    ELSE IF e.value.type = "object"
    THEN UNION {KindsOfOp(e.value.ops[i]) : i \in 1..Len(e.value.ops)}
    ELSE {}

Built == spc \in {"embed", "query", "done"}

\* C13: building the filter does not fail; an entry with an invalid key, a null value
\* or an unknown or malformed operator contributes no condition, every other entry
\* contributes its conditions, and the statement of the search is one the store
\* accepts.
C13_InvalidEntriesDropped ==
    Built
        => /\ \A i \in 1..Len(filterConditions) :
                 \E j \in 1..Len(metadataFilter) :
                    /\ metadataFilter[j].key = filterConditions[i].key
                    /\ filterConditions[i].kind \in KindsOfEntry(metadataFilter[j])
           /\ \A j \in 1..Len(metadataFilter) :
                 \A k \in KindsOfEntry(metadataFilter[j]) :
                    \E i \in 1..Len(filterConditions) :
                       /\ filterConditions[i].key = metadataFilter[j].key
                       /\ filterConditions[i].kind = k
           /\ StatementBinds(filterConditions, filterParams)
           /\ (\A j \in 1..Len(metadataFilter) : KindsOfEntry(metadataFilter[j]) = {})
                 => filterConditions = << >> /\ filterParams = << >>

\* A search whose filter holds an entry with an invalid key and a valid entry has
\* returned rows
C13_Witness ==
    /\ spc = "done"
    /\ Len(metadataFilter) = 2
    /\ metadataFilter[1].key = SemicolonKey
    /\ metadataFilter[1].value = JsString("A")
    /\ Len(filterConditions) = 1
    /\ searchResult # << >>

\* Whether metadata md meets the entry e of a filter, operator by operator
MeetsOp(md, key, o) ==
    LET text == MetaText(md, key)
    IN IF KindsOfOp(o) = {} THEN TRUE
       ELSE CASE o.op = "$in" -> text # Undefined /\ text \in SeqRange(o.val.items)
              [] o.op = "$like" -> text # Undefined /\ Like(text, o.val.str)
              [] o.op = "$ilike" ->
                   text # Undefined /\ Like(LowerText(text), LowerText(o.val.str))
              [] o.op = "$exists" -> (text # Undefined) = JsTruthy(o.val)

Meets(md, e) ==
    IF KindsOfEntry(e) = {} THEN TRUE
    ELSE IF e.value.type = "object"
    THEN \A i \in 1..Len(e.value.ops) : MeetsOp(md, e.key, e.value.ops[i])
    ELSE MetaText(md, e.key) # Undefined /\ MetaText(md, e.key) = e.value.str

\* C14: every row a variant's query returned, and every item of the result, meets
\* every valid entry of the filter and the similarity threshold; with
\* {source: {$in: [A, B]}} only items whose source is A or B are returned.
C14_FilterApplied ==
    /\ \A v \in 1..Len(rowsOf) : \A i \in 1..Len(rowsOf[v]) :
          /\ rowsOf[v][i].similarity >= MinSimilarity
          /\ \A j \in 1..Len(metadataFilter) : Meets(rowsOf[v][i].metadata, metadataFilter[j])
    /\ \A i \in 1..Len(searchResult) :
          /\ \A j \in 1..Len(metadataFilter) : Meets(searchResult[i].metadata, metadataFilter[j])
          /\ metadataFilter = SourceInAB => searchResult[i].metadata[SourceKey] \in {"A", "B"}

\* Two variants were searched with {source: {$in: [A, B]}} while a document with
\* another source was above the threshold, and both matching documents came back
C14_Witness ==
    /\ spc = "done"
    /\ metadataFilter = SourceInAB
    /\ Len(rowsOf) = 2
    /\ \E v \in 1..Len(simOf) : simOf[v][3] >= MinSimilarity
    /\ Len(searchResult) = 2

\* The placeholder numbers of the conditions, in condition order
RECURSIVE PlaceholderNumbers(_)
PlaceholderNumbers(conds) ==
    IF conds = << >> THEN << >>
    ELSE [i \in 1..Head(conds).count |-> Head(conds).first + i - 1]
         \o PlaceholderNumbers(Tail(conds))

\* The parameters the placeholders of condition c are bound to
ParamsOf(c, params) ==
    [i \in 1..c.count |-> BoundParams(params)[c.first + i - 1]]

\* Whether entry e of the filter asks for condition c with the values vals
Supplies(e, c, vals) ==
    /\ e.key = c.key
    /\ c.kind \in KindsOfEntry(e)
    /\ IF e.value.type = "object"
       THEN \E n \in 1..Len(e.value.ops) :
               LET o == e.value.ops[n]
               IN /\ c.kind \in KindsOfOp(o)
                  /\ vals = CASE o.op = "$in" -> o.val.items
                              [] o.op \in {"$like", "$ilike"} -> <<o.val.str>>
                              [] OTHER -> << >>
       ELSE vals = <<e.value.str>>

\* C30: buildMetadataFilter numbers its placeholders contiguously from 4: the k-th
\* placeholder in condition order is $(3+k) and is bound to the k-th element of
\* filterParams, which is the value its entry gave; there are as many placeholders
\* as elements of filterParams; a $exists condition has no placeholder, and an entry
\* that is dropped contributes neither a condition nor a parameter.
C30_PlaceholdersContiguous ==
    Built
        => LET nums == PlaceholderNumbers(filterConditions)
           IN /\ Len(nums) = Len(filterParams)
              /\ \A k \in 1..Len(nums) :
                    /\ nums[k] = 3 + k
                    /\ nums[k] \in 1..Len(BoundParams(filterParams))
                    /\ BoundParams(filterParams)[nums[k]] = filterParams[k]
              /\ \A i \in 1..Len(filterConditions) :
                    /\ filterConditions[i].kind \in {"exists", "notexists"}
                          <=> filterConditions[i].count = 0
                    /\ filterConditions[i].first =
                          4 + Len(PlaceholderNumbers(SubSeq(filterConditions, 1, i - 1)))
                    /\ \E j \in 1..Len(metadataFilter) :
                          Supplies(metadataFilter[j], filterConditions[i],
                                   ParamsOf(filterConditions[i], filterParams))

\* A filter whose first entry gave one placeholder and whose second entry gave a
\* $exists condition, an ignored operator and an IN list of two
C30_Witness ==
    /\ Built
    /\ Len(metadataFilter) = 2
    /\ Len(filterConditions) = 3
    /\ filterConditions[1].kind = "eq"
    /\ filterConditions[2].kind = "exists"
    /\ filterConditions[3].kind = "in"
    /\ filterConditions[3].first = 5
    /\ filterParams = <<"A", "A", "a">>

\* C25: a search made with the filters the client builds for the selected sources A
\* and B (filters.source a bare list of the names) returns only documents whose
\* source is A or B, as it does for one selected source.
C25_SelectedSourcesOnly ==
    /\ (spc = "done" /\ metadataFilter = BuildFilters(<<"A">>))
          => \A i \in 1..Len(searchResult) : searchResult[i].metadata[SourceKey] = "A"
    /\ (spc = "done" /\ metadataFilter = BuildFilters(<<"A", "B">>))
          => \A i \in 1..Len(searchResult) : searchResult[i].metadata[SourceKey] \in {"A", "B"}

(***************************************************************************)
(* Properties of the stored documents (SpecStore).                         *)
(***************************************************************************)
\* C15: deleteDocument(id) on a stored id removes that row only and returns the id;
\* on an id that is not stored (never stored, or deleted before) it returns the
\* no-such-id value and leaves the table as it was.
C15_DeleteIsIdempotent ==
    (storeOp.name = "delete" /\ storeOp.state = "returned")
        => IF storeOp.id \in storeOp.before
           THEN storeOp.ret = SomeId(storeOp.id) /\ table = storeOp.before \ {storeOp.id}
           ELSE storeOp.ret = NoId /\ table = storeOp.before

\* A delete of an id that was handed out and deleted before has returned, other rows
\* being stored
C15_Witness ==
    /\ storeOp.name = "delete" /\ storeOp.state = "returned"
    /\ storeOp.id < nextId
    /\ storeOp.id \notin storeOp.before
    /\ storeOp.ret = NoId
    /\ table # {}

\* C16: an addDocuments call that failed after its embeddings were computed leaves
\* none of the batch's documents stored and returns no ids.
C16_AddIsAllOrNothing ==
    (storeOp.name = "add" /\ storeOp.state = "threw")
        => /\ table = storeOp.before
           /\ storeOp.retIds = << >>

(***************************************************************************)
(* Properties of the non-streaming chat and of the context (SpecChat).     *)
(***************************************************************************)
\* C17: in handleChat a completion failure caused by a missing provider API key gives
\* a success response whose content is the message naming the missing configuration;
\* every other completion failure gives an error response with no content.
C17_CompletionFailureResponses ==
    (pc = "done" /\ ~Streamed /\ llm.state = "threw")
        => IF llm.error = ApiKeyError
           THEN /\ response.status = 200
                /\ response.error = << >>
                /\ response.content =
                     <<"To use this feature, please configure your LLM API key in the backend/.env file. Error: ">>
                     \o ApiKeyError.message
           ELSE /\ response.status = 500
                /\ response.content = << >>
                /\ response.error # << >>

\* The documents the retrieval gave the handler (none when it failed)
RetrievedDocs == IF retrieval.state = "ok" THEN retrieval.docs ELSE << >>

\* The attribution of one retrieved item
AttributionOf(doc) ==
    [name |-> IF doc.metadata.title \notin {Undefined, ""} THEN doc.metadata.title
              ELSE IF doc.metadata.source \notin {Undefined, ""} THEN doc.metadata.source
              ELSE "Stored Knowledge",
     url |-> IF doc.metadata.url \notin {Undefined, ""} THEN doc.metadata.url ELSE "#"]

\* One attribution per retrieved item in rank order, then those of the external context
ExpectedSources ==
    [i \in 1..(Len(RetrievedDocs) + Len(web3Context.sources)) |->
        IF i <= Len(RetrievedDocs) THEN AttributionOf(RetrievedDocs[i])
        ELSE web3Context.sources[i - Len(RetrievedDocs)]]

\* C18: the sources event, and sources of the successful non-streaming response, list
\* one attribution per retrieved item in rank order followed by the external
\* context's attributions in the provider's order; the sources event is the first
\* event written, so the list is fixed before any content is produced.
C18_AttributionOrder ==
    /\ (Streamed /\ written # << >>)
          => /\ written[1].event = "sources"
             /\ written[1].data.sources = ExpectedSources
             /\ \A i \in 2..Len(written) : written[i].event # "sources"
    /\ (Streamed /\ written = << >>) => yielded = << >>
    /\ (pc = "done" /\ ~Streamed /\ llm.state = "ok")
          => response.sources = ExpectedSources

\* Two items were retrieved, the external context has two attributions, and content
\* has been sent after the sources event
C18_Witness ==
    /\ Streamed
    /\ Len(RetrievedDocs) = 2
    /\ Len(web3Context.sources) = 2
    /\ Len(written) >= 3
    /\ written[3].event = "chunk"
    /\ written[1].data.sources[2] # written[1].data.sources[1]

\* The snippet block: each snippet behind the provenance prefix, in rank order
RECURSIVE SnippetBlock(_)
SnippetBlock(docs) ==
    IF docs = << >> THEN << >>
    ELSE <<"[From stored knowledge]: ", Head(docs).content>>
         \o (IF Tail(docs) = << >> THEN << >> ELSE <<"\n\n">> \o SnippetBlock(Tail(docs)))

\* Empty or whitespace-only
Blank(text) == \A i \in 1..Len(text) : IsSpace(text[i])

\* The blocks that are not blank, each separated from the one before it
ExpectedContext(block, external) ==
    IF Blank(block) /\ Blank(external) THEN << >>
    ELSE IF Blank(block) THEN external
    ELSE IF Blank(external) THEN block
    ELSE block \o <<"\n\n">> \o external

\* The handler has called getLLMResponse or streamLLMResponse
CompletionCalled == Streamed \/ "getLLMResponse" \in SeqRange(calls)

TextBlocks == {<< >>, <<" ">>, <<"\n", " ">>, <<"x">>, <<" ", "x", "\n">>}

\* C20: the context passed to the completion is the snippet block (provenance prefix on
\* each snippet, rank order) followed by the external text; a block that is empty or
\* whitespace-only is left out with its separator, and the context is empty exactly
\* when both blocks are.
C20_ContextAssembly ==
    /\ CompletionCalled
          => /\ combinedContext
                  = ExpectedContext(SnippetBlock(RetrievedDocs), web3Context.relevantData)
             /\ combinedContext = << >>
                  <=> (RetrievedDocs = << >> /\ web3Context.relevantData = << >>)
    /\ \A block \in TextBlocks, external \in TextBlocks :
          /\ CombineContext(block, external) = ExpectedContext(block, external)
          /\ CombineContext(block, external) = << >> <=> (Blank(block) /\ Blank(external))

\* The completion was called with two snippets and an external text
C20_Witness ==
    /\ CompletionCalled
    /\ Len(RetrievedDocs) = 2
    /\ web3Context.relevantData # << >>
    /\ combinedContext = SnippetBlock(RetrievedDocs) \o <<"\n\n">> \o web3Context.relevantData

(***************************************************************************)
(* Properties of the client's event-stream consumer (SpecClient).          *)
(***************************************************************************)
\* The (event, data) pairs of the events handleSend has a branch for
IsHandled(event) == EventName(event) \in HandledNames
HandledOf(events) ==
    LET kept == SelectSeq(events, IsHandled)
    IN [i \in 1..Len(kept) |-> [event |-> EventName(kept[i]), data |-> kept[i]]]

\* C19: however the response body is split into reads, the consumer has dispatched,
\* once the body is read, exactly the events the server wrote, each once, in order and
\* under its own name.
C19_SplitIndependent ==
    (reading = "closed") => dispatched = HandledOf(sent)

(***************************************************************************)
(* Properties of the feed cache under interleaved calls (SpecConcurrent).  *)
(***************************************************************************)
\* C22: with calls interleaving at the awaits of their fetches, an entry is absent or
\* a whole (data, timestamp) pair; it changes only when a fetch of that feed returns,
\* to the data of that fetch stamped with the instant of its return, and every fetch
\* that returns data replaces the entry (the last writer wins); a call that misses
\* issues its own upstream call even while another call's fetch of the feed is
\* in flight.
C22_CacheConsistent ==
    [][ /\ \A f \in Feeds :
             /\ cache'[f] = NoEntry \/ (cache'[f].present /\ cache'[f].timestamp \in 0..now')
             /\ cache'[f] # cache[f]
                   => \E r \in Requests :
                         /\ <<r, f>> \in Completing
                         /\ cache'[f] = [present |-> TRUE, data |-> req'[r].got[f],
                                         timestamp |-> now]
             /\ \A r \in Requests :
                   (<<r, f>> \in Completing /\ req'[r].got[f] # List(<< >>))
                      => cache'[f].data = req'[r].got[f]
        /\ \A r \in Requests :
             (req[r].state = "run" /\ req'[r].state = "wait")
                => \A f \in FeedsOf(req[r].phase) :
                      ~Truthy(GetCached(cache, f, now)) => <<r, f>> \in inflight' ]_vars

\* Both calls missed the market feed and fetched it; their fetches returned
\* different data and the entry holds the data of one of them, the other's being
\* overwritten
C22_Witness ==
    /\ inflight = {}
    /\ req[1].state = "wait" /\ req[2].state = "wait"
    /\ req[1].got["market_data"].tag = "list" /\ req[2].got["market_data"].tag = "list"
    /\ Len(req[1].got["market_data"].items) = 1
    /\ Len(req[2].got["market_data"].items) = 2
    /\ cache["market_data"].present
    /\ cache["market_data"].data = req[1].got["market_data"]

(***************************************************************************)
(* Further properties of the chat handlers (SpecChat).                     *)
(***************************************************************************)
\* C29: in handleChat the attributions are attached only when the completion
\* succeeds: the response of the missing-API-key path is a success response whose
\* sources list is empty whatever the retrieval and the external lookup returned;
\* in handleChatStream the sources event, carrying all attributions, is written
\* before the completion is attempted, so it is there whatever the completion does.
C29_SourcesOnlyOnSuccess ==
    /\ (pc = "done" /\ ~Streamed /\ response.sources # << >>)
          => llm.state = "ok" /\ response.status = 200
    /\ (pc = "done" /\ ~Streamed /\ llm.state = "threw" /\ llm.error = ApiKeyError)
          => response.status = 200 /\ response.sources = << >>
    /\ Streamed
          => /\ written # << >>
             /\ written[1].event = "sources"
             /\ written[1].data.sources = ExpectedSources
             /\ ~written[1].afterEnd
    /\ (Streamed /\ llm.state = "pending" /\ yielded = << >> /\ pc = "s_stream")
          => Len(written) = 2

\* The missing-key response was sent although the retrieval and the external lookup
\* both returned attributions
C29_Witness ==
    /\ pc = "done"
    /\ ~Streamed
    /\ llm.state = "threw"
    /\ llm.error = ApiKeyError
    /\ Len(vectorSources) = 2
    /\ Len(web3Context.sources) = 2
    /\ response.status = 200
    /\ response.sources = << >>

\* C26: in a streaming request that reached the streaming stage, whatever the
\* completion stream throws, the response is ended at most once, exactly once when the
\* handler is through, and nothing is written to it after it was ended.
C26_EndedExactlyOnce ==
    Streamed
        => /\ ended <= 1
           /\ pc = "done" => ended = 1
           /\ \A i \in 1..Len(written) : ~written[i].afterEnd

====
